---- MODULE Spec2Model ----
(***************************************************************************)
(* Model of the elasticsearch-mcp server.                                  *)
(*                                                                         *)
(* Spec: one request to one tool per behaviour (export_to_csv,             *)
(* search_elasticsearch, delete_document, update_document, insert_data,    *)
(* create_index).  Every await of the handler is one action: the cluster   *)
(* client and the file system answer each call with one of the outcomes    *)
(* they can produce (a value or a rejection).                              *)
(* ExportLiveSpec: one export request whose awaited operations all settle. *)
(* ConcurrentSpec: two export requests interleaved on one file system.     *)
(* ExtractSpec: one call of extractFieldValue.                             *)
(* HandlerSpec: one error in the hands of the ErrorHandler.                *)
(* ManagerSpec: the ElasticsearchManager with its health timer.            *)
(***************************************************************************)
EXTENDS Integers, Sequences, FiniteSets, TLC

VARIABLES
  tool,      \* the tool that was called
  args,      \* the argument bag of the call
  cluster,   \* what the cluster holds: index existence, matching records
  pc,        \* position of execute(): the await it is suspended at
  calls,     \* number of calls issued on the cluster client, per operation
  outcome,   \* "running", "returned" or "threw"
  thrown,    \* the error execute() threw to its caller
  sent,      \* the search and deleteByQuery requests sent, in order
  fields,    \* export: number of resolved columns (-1 before resolution)
  response,  \* export: the current response (batch size asked, hits, _scroll_id)
  remaining, \* export: matching records the cursor has not yielded yet
  totalExported, \* export: the counter of exportDataWithScroll
  exported,  \* export: successive values of totalExported
  fs,        \* export: the three files of the export
  csv,       \* export: what the writer wrote to the temp file, in order
  produced,  \* export: file names this export wrote or renamed into
  steps,     \* export: finalization steps that ran, in order
  release,   \* export: outcome of each clearScroll call, in order
  result,    \* export: the ExportToCSVResult returned
  runs,      \* two concurrent exports: position and file names of each
  disk,      \* two concurrent exports: the paths that exist
  touched,   \* two concurrent exports: the file operations done, by whom
  extraction, \* one call of extractFieldValue: its arguments and its result
  handling,  \* one error in the hands of the ErrorHandler
  manager,   \* the ElasticsearchManager: its fields, its timers, its tasks
  observed   \* what the cluster answered: to indices.exists ("none" before
             \* the call), whether the opening search gave a _scroll_id,
             \* and whether every response so far carried one

\* The variables of the other components, which one tool call leaves alone
others == << runs, disk, touched, extraction, handling, manager >>

\* The variables of one tool call
toolVars == << tool, args, cluster, pc, calls, outcome, thrown, sent, fields,
               response, remaining, totalExported, exported, fs, csv, produced,
               steps, release, result, observed >>

vars == << toolVars, others >>

(***************************************************************************)
(* Text.  A string is a sequence of one-character strings.                 *)
(***************************************************************************)
S_script == << "s","c","r","i","p","t" >>
S_script_score == << "s","c","r","i","p","t","_","s","c","o","r","e" >>
S_script_query == << "s","c","r","i","p","t","_","q","u","e","r","y" >>
S_Script_Score == << "S","c","r","i","p","t","_","S","c","o","r","e" >>
S_match_all == << "m","a","t","c","h","_","a","l","l" >>
S_bool == << "b","o","o","l" >>
S_filter == << "f","i","l","t","e","r" >>
S_term == << "t","e","r","m" >>
S_query == << "q","u","e","r","y" >>
S_source == << "s","o","u","r","c","e" >>
S_status == << "s","t","a","t","u","s" >>
S_active == << "a","c","t","i","v","e" >>
S_title == << "t","i","t","l","e" >>
S_must == << "m","u","s","t" >>
S_a == << "a" >>
S_x == << "x" >>
S_not_found == << "n","o","t","_","f","o","u","n","d" >>
S_document_missing == << "d","o","c","u","m","e","n","t","_","m","i","s","s","i","n","g" >>
S_document_missing_exception ==
  S_document_missing \o << "_","e","x","c","e","p","t","i","o","n" >>
S_version_conflict ==
  << "v","e","r","s","i","o","n","_","c","o","n","f","l","i","c","t" >>
S_timeout == << "t","i","m","e","o","u","t" >>
S__id == << "_","i","d" >>
S__version_conflict == << "_" >> \o S_version_conflict

\* The lower-case letter of each upper-case letter
LowerOf ==
  [A |-> "a", B |-> "b", C |-> "c", D |-> "d", E |-> "e", F |-> "f", G |->
  "g", H |-> "h", I |-> "i", J |-> "j", K |-> "k", L |-> "l", M |-> "m", N
  |-> "n", O |-> "o", P |-> "p", Q |-> "q", R |-> "r", S |-> "s", T |->
  "t", U |-> "u", V |-> "v", W |-> "w", X |-> "x", Y |-> "y", Z |-> "z"]

\* String.prototype.toLowerCase, character by character
LowerChar(c) == IF c \in DOMAIN LowerOf THEN LowerOf[c] ELSE c

toLowerCase(s) == [i \in 1..Len(s) |-> LowerChar(s[i])]

\* String.prototype.includes
includes(s, sub) ==
  \E i \in 1..(Len(s) - Len(sub) + 1) : SubSeq(s, i, i + Len(sub) - 1) = sub

\* String.prototype.startsWith
startsWith(s, pre) == Len(s) >= Len(pre) /\ SubSeq(s, 1, Len(pre)) = pre

(***************************************************************************)
(* JSON values: objects are sequences of <<key, value>> pairs in insertion *)
(* order, arrays are sequences of values, strings are texts.               *)
(***************************************************************************)
Obj(kv) == [t |-> "obj", v |-> kv]
Arr(items) == [t |-> "arr", v |-> items]
Str(s) == [t |-> "str", v |-> s]
Num(n) == [t |-> "num", v |-> n]

\* Large values, held by their size: a string of n characters, none of them
\* a quote or a backslash, and an array of n elements equal to item.
Text(n) == [t |-> "text", n |-> n]
Many(n, item) == [t |-> "many", n |-> n, item |-> item]

\* typeof value === 'string', and value.length
IsString(j) == j.t \in { "str", "text" }
StringLength(j) == IF j.t = "str" THEN Len(j.v) ELSE j.n

\* Array.isArray(value), and value.length
IsArray(j) == j.t \in { "arr", "many" }
ArrayLength(j) == IF j.t = "arr" THEN Len(j.v) ELSE j.n

\* The values a value holds directly: member values, array elements
Children(j) ==
  IF j.t = "obj" THEN { j.v[i][2] : i \in 1..Len(j.v) }
  ELSE IF j.t = "arr" THEN { j.v[i] : i \in 1..Len(j.v) }
  ELSE IF j.t = "many" THEN { j.item }
  ELSE {}

RECURSIVE LevelsFrom(_, _)
\* acc followed by S, by the values the values of S hold, and so on down.
\* (acc # acc is never true: it has acc computed before the next call.)
LevelsFrom(S, acc) ==
  IF S = {} \/ acc # acc THEN acc
  ELSE LevelsFrom(UNION { Children(n) : n \in S }, Append(acc, S))

\* The values of the tree j, level by level: j, what j holds, ...
Levels(j) == LevelsFrom({ j }, << >>)

DigitChar(d) == << "0","1","2","3","4","5","6","7","8","9" >>[d + 1]

RECURSIVE NumberText(_)
\* The decimal text of a natural number
NumberText(n) ==
  IF n < 10 THEN << DigitChar(n) >>
  ELSE NumberText(n \div 10) \o << DigitChar(n % 10) >>

RECURSIVE StringifyJoin(_, _)
\* The texts parts[i], parts[i+1], ... joined by commas
StringifyJoin(parts, i) ==
  IF i > Len(parts) THEN << >>
  ELSE IF i = Len(parts) THEN parts[i]
  ELSE parts[i] \o << "," >> \o StringifyJoin(parts, i + 1)

\* JSON.stringify of the value n, given the texts F of the values n holds:
\* a string between quotes, the elements of an array between brackets, the
\* "key":value members of an object between braces
StringifyValue(n, F) ==
  IF n.t = "str" THEN << "\"" >> \o n.v \o << "\"" >>
  ELSE IF n.t = "num" THEN NumberText(n.v)
  ELSE IF n.t = "null" THEN << "n","u","l","l" >>
  ELSE IF n.t = "arr"
    THEN << "[" >>
         \o StringifyJoin([i \in 1..Len(n.v) |-> F[n.v[i]]], 1)
         \o << "]" >>
  ELSE << "{" >>
       \o StringifyJoin([i \in 1..Len(n.v) |->
             << "\"" >> \o n.v[i][1] \o << "\"", ":" >> \o F[n.v[i][2]]], 1)
       \o << "}" >>

RECURSIVE StringifyLevels(_, _, _)
\* The texts of the values of levels[k], given the texts F of levels[k+1],
\* then those of levels[k-1], up to the texts of levels[1].
\* (F # F is never true: it has F computed before the next call.)
StringifyLevels(levels, k, F) ==
  IF k = 0 \/ F # F THEN F
  ELSE StringifyLevels(levels, k - 1,
                       [n \in levels[k] |-> StringifyValue(n, F)])

\* JSON.stringify, computed from the innermost values outwards
Stringify(j) == StringifyLevels(Levels(j), Len(Levels(j)), << >>)[j]

RECURSIVE StringifyLength(_)
RECURSIVE StringifyLengthFrom(_, _)

\* JSON.stringify(j).length, for trees that hold large values
StringifyLength(j) ==
  CASE j.t = "str" -> Len(j.v) + 2
    [] j.t = "text" -> j.n + 2
    [] j.t = "many" ->
         IF j.n = 0 THEN 2 ELSE 2 + j.n * StringifyLength(j.item) + (j.n - 1)
    [] OTHER -> 2 + StringifyLengthFrom(j, 1)

\* The length of the members or elements i, i+1, ... with their commas
StringifyLengthFrom(j, i) ==
  IF i > Len(j.v) THEN 0
  ELSE (IF i > 1 THEN 1 ELSE 0)
       + (IF j.t = "obj"
            THEN Len(j.v[i][1]) + 3 + StringifyLength(j.v[i][2])
            ELSE StringifyLength(j.v[i]))
       + StringifyLengthFrom(j, i + 1)

\* Object.keys(obj).length
KeyCount(j) == Len(j.v)

Null == [t |-> "null", v |-> << >>]

(***************************************************************************)
(* Errors.  An error has a kind (its class) and a message; the message is  *)
(* a template of the source with one inserted text.  The literal parts of  *)
(* the templates hold none of the markers the handlers look for, and the   *)
(* inserted text stands between quotes, so a marker is found in a message  *)
(* exactly when it is found in the inserted text.                          *)
(***************************************************************************)
Error(kind, tpl, param) == [kind |-> kind, tpl |-> tpl, param |-> param]

NoError == Error("none", "", << >>)

\* The code each error class passes to the ElasticMCPError constructor
ErrorCode(kind) ==
  CASE kind = "ValidationError" -> "VALIDATION_ERROR"
    [] kind = "NotFoundError" -> "NOT_FOUND"
    [] kind = "ElasticsearchError" -> "ELASTICSEARCH_ERROR"
    [] OTHER -> ""

\* error.message.toLowerCase().includes(marker)
messageIncludes(e, marker) == includes(toLowerCase(e.param), marker)

\* An error thrown by the cluster client or the file system: a plain Error
\* whose message is the text the collaborator produced.
TransportError(text) == Error("Error", "%", text)

\* Messages a failing cluster call can carry
ClientFailures == { S_timeout, S_not_found, S_version_conflict }

(***************************************************************************)
(* Filter trees.  A request names its filter by number; 0 is no filter.    *)
(***************************************************************************)
MAX_QUERY_DEPTH == 20

RECURSIVE Chain(_)
\* { a: { a: ... {} } }: n objects nested below the root
Chain(n) == IF n = 0 THEN Obj(<< >>) ELSE Obj(<< << S_a, Chain(n - 1) >> >>)

MatchAll == Obj(<< << S_match_all, Obj(<< >>) >> >>)
ScriptBody == Obj(<< << S_source, Str(S_x) >> >>)

\* { bool: { must: [ inner ] } }
BoolMustOf(inner) ==
  IF inner.t = "null" THEN inner
  ELSE Obj(<< << S_bool, Obj(<< << S_must, Arr(<< inner >>) >> >>) >> >>)

RECURSIVE BoolMust(_, _)
\* inner wrapped n times in { bool: { must: [ inner ] } }
BoolMust(n, inner) == IF n = 0 THEN inner ELSE BoolMustOf(BoolMust(n - 1, inner))

TermQuery == Obj(<< << S_term, Obj(<< << S_status, Str(S_active) >> >>) >> >>)

NoQuery == 0
QueryIds == 1..13

QueryTree(q) ==
  CASE q = 1 -> MatchAll
    [] q = 2 -> TermQuery
    [] q = 3 -> Obj(<< << S_script_score,
                         Obj(<< << S_query, MatchAll >>,
                                << S_script, ScriptBody >> >>) >> >>)
    [] q = 4 -> Obj(<< << S_bool, Obj(<< << S_filter,
                         Arr(<< Obj(<< << S_script_query, ScriptBody >> >>) >>)
                       >> >>) >> >>)
    [] q = 5 -> Obj(<< << S_bool, Obj(<< << S_filter,
                         Arr(<< Obj(<< << S_script,
                                Obj(<< << S_script, ScriptBody >> >>) >> >>) >>)
                       >> >>) >> >>)
    [] q = 6 -> Obj(<< << S_script, Obj(<< << S_script, ScriptBody >> >>) >> >>)
    [] q = 7 -> Obj(<< << S_Script_Score,
                         Obj(<< << S_query, MatchAll >>,
                                << S_script, ScriptBody >> >>) >> >>)
    [] q = 8 -> Chain(MAX_QUERY_DEPTH + 1)
    [] q = 9 -> Obj(<< >>)
    [] q = 10 -> Chain(MAX_QUERY_DEPTH)
    [] q = 11 -> Obj(<< << S_term, Obj(<< << S_status, Str(S_active) >> >>) >>,
                        << S_bool, Chain(MAX_QUERY_DEPTH) >> >>)
    [] q = 12 -> Obj(<< << S_bool, Chain(MAX_QUERY_DEPTH - 1) >>,
                        << S_term, Obj(<< << S_status, Str(S_active) >> >>) >> >>)
    [] q = 13 -> BoolMust(MAX_QUERY_DEPTH + 1, TermQuery)

\* Some key of the tree, at any level, names a script construct.
HasScriptKey(j) ==
  \E k \in 1..Len(Levels(j)) : \E n \in Levels(j)[k] :
    /\ n.t = "obj"
    /\ \E i \in 1..Len(n.v) :
         n.v[i][1] \in { S_script, S_script_score, S_script_query }

(***************************************************************************)
(* sanitizeQuery of validation/schemas: an absent or empty filter gives    *)
(* null (match everything), any other filter is returned cleaned.  The     *)
(* rejections of the sanitizer/validator component (script markers, depth) *)
(* are the tools' validateQuery and validateQueryDepth below; the trees of *)
(* the model hold nothing the cleaning changes.                            *)
(***************************************************************************)
sanitizeQuery(q) ==
  IF q = NoQuery \/ KeyCount(QueryTree(q)) = 0 THEN Null ELSE QueryTree(q)

(***************************************************************************)
(* The tools' own checks of a sanitized filter.  validateQueryDepth is TRUE *)
(* when it throws; validateQuery gives the ValidationError it throws.      *)
(***************************************************************************)
\* The depth test written with >= in place of >
DepthExceedsInclusive(depth) == depth >= MAX_QUERY_DEPTH

\* if (depth > MAX_QUERY_DEPTH)
DepthExceeds(depth) == depth > MAX_QUERY_DEPTH

\* The ValidationError of validateQueryDepth, the same text in both tools
DepthExceeded ==
  Error("ValidationError", "Query nesting exceeds maximum depth of 20", << >>)

RECURSIVE Delete_validateQueryDepth(_, _)
Delete_validateQueryDepth(obj, depth) ==
  \/ DepthExceeds(depth)
  \/ \E i \in 1..Len(obj.v) :
       /\ obj.v[i][2].t = "obj"
       /\ Delete_validateQueryDepth(obj.v[i][2], depth + 1)

\* DeleteDocumentTool.validateQuery: the error it throws, NoError if none
Delete_validateQuery(query) ==
  LET queryStr == toLowerCase(Stringify(query))
  IN  IF includes(queryStr, S_script_score) \/ includes(queryStr, S_script_query)
        THEN Error("ValidationError",
                   "Script-based queries are not allowed in delete operations", << >>)
      ELSE IF Delete_validateQueryDepth(query, 0)
        THEN DepthExceeded
      ELSE NoError

RECURSIVE Search_validateQueryDepth(_, _)
Search_validateQueryDepth(obj, depth) ==
  \/ DepthExceeds(depth)
  \/ \E i \in 1..Len(obj.v) :
       /\ obj.v[i][2].t = "obj"
       /\ Search_validateQueryDepth(obj.v[i][2], depth + 1)

\* SearchElasticsearchTool.validateQuery: the error it throws, NoError if none
Search_validateQuery(query) ==
  LET queryStr == toLowerCase(Stringify(query))
  IN  IF includes(queryStr, S_script_score) \/ includes(queryStr, S_script_query)
        THEN Error("ValidationError",
                   "Script-based queries require additional security validation", << >>)
      ELSE IF Search_validateQueryDepth(query, 0)
        THEN DepthExceeded
      ELSE NoError

(***************************************************************************)
(* export_to_csv                                                           *)
(***************************************************************************)
scrollSize == 1000
DefaultMaxRows == 1000000
MaxRowsMinimum == 1
MaxRowsMaximum == 1000000

\* Bounds of the model
MaxRecords == 2500
FieldCount == 2

Min(a, b) == IF a < b THEN a ELSE b

FileNames == { "tmp", "final", "gz" }

\* ExportToCSVArgsSchema.parse: TRUE when the argument bag is rejected
ExportArgsRejected(a) ==
  \/ ~a.index
  \/ a.maxRows.given /\ (a.maxRows.n < MaxRowsMinimum \/ a.maxRows.n > MaxRowsMaximum)

\* const maxRows = args.maxRows || 1000000
maxRowsOf(a) ==
  IF a.maxRows.given /\ a.maxRows.n # 0 THEN a.maxRows.n ELSE DefaultMaxRows

\* The catch block without NotFoundError in its instanceof test
Export_catchWrapsNotFound(e) ==
  IF e.kind = "ZodError"
    THEN Error("ValidationError", "Invalid arguments for export_to_csv", << >>)
  ELSE IF e.kind = "ValidationError"
    THEN e
  ELSE Error("ElasticsearchError", "Failed to export data to CSV", e.param)

\* The catch block of ExportToCSVTool.execute
Export_catch(e) ==
  IF e.kind = "ZodError"
    THEN Error("ValidationError", "Invalid arguments for export_to_csv", << >>)
  ELSE IF e.kind \in { "ValidationError", "NotFoundError" }
    THEN e
  ELSE Error("ElasticsearchError", "Failed to export data to CSV", e.param)

ExportThrow(e) ==
  /\ pc' = "done"
  /\ outcome' = "threw"
  /\ thrown' = Export_catch(e)

\* Where the handler goes once the scroll loop is left: the release of the
\* cursor when the current response carries a _scroll_id, the size lookup
\* otherwise.
AfterLoop(resp) == IF resp.sid THEN "clear" ELSE "stat"

\* while (response.hits.hits.length > 0 && totalExported < maxRows)
LoopTest(resp, total, cap) ==
  IF resp.hits > 0 /\ total < cap THEN "write" ELSE AfterLoop(resp)

ExportVarsIdle ==
  UNCHANGED << fields, response, remaining, totalExported, exported, fs, csv,
               produced, steps, release, result >>

\* ExportToCSVArgsSchema.parse(args)
ExportParse ==
  /\ tool = "export_to_csv" /\ pc = "parse"
  /\ IF ExportArgsRejected(args)
       THEN ExportThrow(Error("ZodError", "", << >>))
       ELSE pc' = "exists" /\ UNCHANGED << outcome, thrown >>
  /\ ExportVarsIdle
  /\ UNCHANGED << observed, others, tool, args, cluster, calls, sent >>

\* await client.indices.exists, then generateFilename and the first lines
\* of determineFields
ExportIndexExists ==
  /\ tool = "export_to_csv" /\ pc = "exists"
  /\ calls' = [calls EXCEPT !["indices.exists"] = @ + 1]
  /\ \/ /\ cluster.indexExists
        /\ observed' = [observed EXCEPT !.exists = "true"]
        /\ IF args.fields > 0
             THEN fields' = args.fields /\ pc' = "open"
             ELSE fields' = fields /\ pc' = "getMapping"
        /\ UNCHANGED << outcome, thrown >>
     \/ /\ ~cluster.indexExists
        /\ observed' = [observed EXCEPT !.exists = "false"]
        /\ ExportThrow(Error("NotFoundError", "Index '%' does not exist", S_a))
        /\ UNCHANGED fields
     \/ /\ observed' = [observed EXCEPT !.exists = "rejected"]
        /\ ExportThrow(TransportError(S_timeout))
        /\ UNCHANGED fields
  /\ UNCHANGED << response, remaining, totalExported, exported, fs, csv, produced,
                  steps, release, result >>
  /\ UNCHANGED << others, tool, args, cluster, sent >>

\* determineFields: await client.indices.getMapping
ExportGetMapping ==
  /\ tool = "export_to_csv" /\ pc = "getMapping"
  /\ calls' = [calls EXCEPT !["indices.getMapping"] = @ + 1]
  /\ \/ /\ cluster.mappingFields > 0
        /\ fields' = cluster.mappingFields /\ pc' = "open"
     \/ /\ cluster.mappingFields = 0
        /\ fields' = fields /\ pc' = "sampleInTry"
     \/ /\ fields' = fields /\ pc' = "sampleInCatch"
  /\ UNCHANGED << outcome, thrown, response, remaining, totalExported,
                  exported, fs, csv, produced, steps, release, result >>
  /\ UNCHANGED << observed, others, tool, args, cluster, sent >>

\* determineFields: the sample search inside the try block
ExportSampleInTry ==
  /\ tool = "export_to_csv" /\ pc = "sampleInTry"
  /\ calls' = [calls EXCEPT !["search"] = @ + 1]
  /\ \/ /\ cluster.records > 0
        /\ fields' = FieldCount /\ pc' = "open"
     \/ /\ cluster.records = 0
        /\ fields' = 0 /\ pc' = "open"
     \/ /\ fields' = fields /\ pc' = "sampleInCatch"
  /\ UNCHANGED << outcome, thrown, response, remaining, totalExported,
                  exported, fs, csv, produced, steps, release, result >>
  /\ UNCHANGED << observed, others, tool, args, cluster, sent >>

\* determineFields: the sample search inside the catch block
ExportSampleInCatch ==
  /\ tool = "export_to_csv" /\ pc = "sampleInCatch"
  /\ calls' = [calls EXCEPT !["search"] = @ + 1]
  /\ \/ /\ cluster.records > 0
        /\ fields' = FieldCount /\ pc' = "open"
        /\ UNCHANGED << outcome, thrown >>
     \/ /\ cluster.records = 0
        /\ ExportThrow(Error("ValidationError",
             "Could not determine fields to export and no fields specified", << >>))
        /\ UNCHANGED fields
     \/ /\ ExportThrow(TransportError(S_timeout))
        /\ UNCHANGED fields
  /\ UNCHANGED << response, remaining, totalExported, exported, fs, csv, produced,
                  steps, release, result >>
  /\ UNCHANGED << observed, others, tool, args, cluster, sent >>

\* A search or deleteByQuery request as the cluster receives it: the filter
\* is sanitizedQuery || { match_all: {} }
Request(op, q, size) ==
  [op |-> op,
   query |-> IF sanitizeQuery(q).t = "null" THEN 1 ELSE q,
   size |-> size]

\* The cap test written with > in place of >=
CapReachedStrictly(total, cap) == total > cap

\* if (totalExported >= maxRows) break;
CapReached(total, cap) == total >= cap

\* A counter that stays where it is
AddRecordsNone(total, n) == total

\* totalExported += records.length
AddRecords(total, n) == total + n

\* The release without its try/catch
ReleaseErrorEscapes == FALSE

\* The catch around clearScroll logs a warning and goes on.
ReleaseErrorSwallowed == TRUE

\* The compress flag read the wrong way round
FinalizePathInverted(compress) == IF compress THEN "rename" ELSE "compress"

\* if (validatedArgs.compress) ... else ...
FinalizePath(compress) == IF compress THEN "compress" ELSE "rename"

\* The header row of a file with the given columns
HeaderRow(cols) == [kind |-> "header", first |-> 0, last |-> 0, cols |-> cols]

\* The rows of the records first..last of the cursor, one per record, each
\* with one value per column (an empty one for a missing value)
Rows(first, last, cols) ==
  [kind |-> "rows", first |-> first, last |-> last, cols |-> cols]

\* createCSVWriter: header: headers, append: false; format.header is not
\* read.  The writer puts the titles before the first records it writes
\* when it has columns.
createCSVWriter(cols, headerOption) == [cols |-> cols, header |-> cols > 0]

\* response.hits.hits: the records the current response carries, as their
\* positions in the order the cursor yields them
Records(resp, left, matching) ==
  [first |-> matching - left - resp.hits + 1, last |-> matching - left]

\* A writer that puts the newest records before the older ones
writeRecordsFirst(file, records, writer) ==
  << Rows(records.first, records.last, writer.cols) >>
  \o (IF Len(file) = 0 /\ writer.header THEN << HeaderRow(writer.cols) >> ELSE << >>)
  \o file

\* writer.writeRecords(records): the first call creates the file and writes
\* the header row, every call appends one row per record
writeRecords(file, records, writer) ==
  file
  \o (IF Len(file) = 0 /\ writer.header THEN << HeaderRow(writer.cols) >> ELSE << >>)
  \o << Rows(records.first, records.last, writer.cols) >>

\* exportDataWithScroll up to its first await: sanitizeQuery, then the
\* opening search with scroll: '5m'
ExportOpen ==
  /\ tool = "export_to_csv" /\ pc = "open"
  /\ calls' = [calls EXCEPT !["search"] = @ + 1]
  /\ sent' = Append(sent, Request("search", args.query,
                                  Min(scrollSize, maxRowsOf(args))))
  /\ \/ /\ \E sid \in BOOLEAN :
             response' = [size |-> Min(scrollSize, maxRowsOf(args)),
                          hits |-> Min(Min(scrollSize, maxRowsOf(args)),
                                       cluster.matching),
                          sid |-> sid]
        /\ observed' = [observed EXCEPT !.cursor = response'.sid,
                                        !.ids = response'.sid]
        /\ remaining' = cluster.matching - response'.hits
        /\ pc' = LoopTest(response', totalExported, maxRowsOf(args))
        /\ UNCHANGED << outcome, thrown >>
     \/ /\ ExportThrow(TransportError(S_timeout))
        /\ UNCHANGED << response, remaining, observed >>
  /\ UNCHANGED << fields, totalExported, exported, fs, csv, produced, steps,
                  release, result >>
  /\ UNCHANGED << others, tool, args, cluster >>

\* await writer.writeRecords(records); totalExported += records.length;
\* the cap test; the test for a _scroll_id
ExportWrite ==
  /\ tool = "export_to_csv" /\ pc = "write"
  /\ \/ /\ fs' = [fs EXCEPT !["tmp"] = "own"]
        /\ csv' = writeRecords(csv, Records(response, remaining, cluster.matching),
                               createCSVWriter(fields, args.header))
        /\ produced' = produced \cup { "tmp" }
        /\ totalExported' = AddRecords(totalExported, response.hits)
        /\ exported' = Append(exported, totalExported')
        /\ pc' = IF CapReached(totalExported', maxRowsOf(args))
                   THEN AfterLoop(response)
                 ELSE IF response.sid THEN "scroll"
                 ELSE AfterLoop(response)
        /\ UNCHANGED << outcome, thrown >>
     \/ \* the write fails before or after the file was opened for writing
        /\ \E opened \in BOOLEAN :
             /\ fs' = IF opened THEN [fs EXCEPT !["tmp"] = "partial"] ELSE fs
             /\ produced' = IF opened THEN produced \cup { "tmp" } ELSE produced
        /\ ExportThrow(TransportError(S_timeout))
        /\ UNCHANGED << totalExported, exported, csv >>
  /\ UNCHANGED << fields, response, remaining, steps, release, result >>
  /\ UNCHANGED << observed, others, tool, args, cluster, calls, sent >>

\* response = await client.scroll(...), then the loop test
ExportScroll ==
  /\ tool = "export_to_csv" /\ pc = "scroll"
  /\ calls' = [calls EXCEPT !["scroll"] = @ + 1]
  /\ \/ /\ \E sid \in BOOLEAN :
             response' = [size |-> response.size,
                          hits |-> Min(response.size, remaining),
                          sid |-> sid]
        /\ remaining' = remaining - response'.hits
        /\ observed' = [observed EXCEPT !.ids = @ /\ response'.sid]
        /\ pc' = LoopTest(response', totalExported, maxRowsOf(args))
        /\ UNCHANGED << outcome, thrown >>
     \/ /\ ExportThrow(TransportError(S_timeout))
        /\ UNCHANGED << response, remaining, observed >>
  /\ UNCHANGED << fields, totalExported, exported, fs, csv, produced, steps,
                  release, result >>
  /\ UNCHANGED << others, tool, args, cluster, sent >>

\* await client.clearScroll(...) inside its try/catch
ExportClearScroll ==
  /\ tool = "export_to_csv" /\ pc = "clear"
  /\ calls' = [calls EXCEPT !["clearScroll"] = @ + 1]
  /\ \/ /\ release' = Append(release, "released")
        /\ pc' = "stat"
        /\ UNCHANGED << outcome, thrown >>
     \/ /\ release' = Append(release, "failed")
        /\ IF ReleaseErrorSwallowed
             THEN pc' = "stat" /\ UNCHANGED << outcome, thrown >>
             ELSE ExportThrow(TransportError(S_timeout))
  /\ UNCHANGED << fields, response, remaining, totalExported, exported, fs, csv,
                  produced, steps, result >>
  /\ UNCHANGED << observed, others, tool, args, cluster, sent >>

\* const stats = await fs.stat(tempFilename)
ExportStat ==
  /\ tool = "export_to_csv" /\ pc = "stat"
  /\ \/ /\ fs["tmp"] # "absent"
        /\ pc' = FinalizePath(args.compress)
        /\ UNCHANGED << outcome, thrown >>
     \/ ExportThrow(TransportError(S_timeout))
  /\ UNCHANGED << fields, response, remaining, totalExported, exported, fs, csv,
                  produced, steps, release, result >>
  /\ UNCHANGED << observed, others, tool, args, cluster, calls, sent >>

\* await this.compressFile(tempFilename, finalFilename): readFile, gzip,
\* writeFile
ExportCompress ==
  /\ tool = "export_to_csv" /\ pc = "compress"
  /\ steps' = Append(steps, "compressFile")
  /\ \/ /\ fs' = [fs EXCEPT !["gz"] = fs["tmp"]]
        /\ produced' = produced \cup { "gz" }
        /\ pc' = "unlink"
        /\ UNCHANGED << outcome, thrown >>
     \/ \* readFile or gzip fails
        /\ ExportThrow(TransportError(S_timeout))
        /\ UNCHANGED << fs, produced >>
     \/ \* writeFile fails after it opened the file
        /\ fs' = [fs EXCEPT !["gz"] = "partial"]
        /\ produced' = produced \cup { "gz" }
        /\ ExportThrow(TransportError(S_timeout))
  /\ UNCHANGED << fields, response, remaining, totalExported, exported,
                  release, result >>
  /\ UNCHANGED << csv, observed, others, tool, args, cluster, calls, sent >>

\* await fs.unlink(tempFilename)
ExportUnlink ==
  /\ tool = "export_to_csv" /\ pc = "unlink"
  /\ steps' = Append(steps, "unlink")
  /\ \/ /\ fs' = [fs EXCEPT !["tmp"] = "absent"]
        /\ pc' = "statCompressed"
        /\ UNCHANGED << outcome, thrown >>
     \/ /\ ExportThrow(TransportError(S_timeout))
        /\ UNCHANGED fs
  /\ UNCHANGED << fields, response, remaining, totalExported, exported,
                  produced, release, result >>
  /\ UNCHANGED << csv, observed, others, tool, args, cluster, calls, sent >>

ExportReturn(name) ==
  /\ pc' = "done"
  /\ outcome' = "returned"
  /\ result' = [filename |-> name, rowsExported |-> totalExported]
  /\ UNCHANGED thrown

\* const compressedStats = await fs.stat(finalFilename), then the return
ExportStatCompressed ==
  /\ tool = "export_to_csv" /\ pc = "statCompressed"
  /\ \/ ExportReturn("gz")
     \/ ExportThrow(TransportError(S_timeout)) /\ UNCHANGED result
  /\ UNCHANGED << fields, response, remaining, totalExported, exported, fs, csv,
                  produced, steps, release >>
  /\ UNCHANGED << observed, others, tool, args, cluster, calls, sent >>

\* await fs.rename(tempFilename, finalFilename), then the return
ExportRename ==
  /\ tool = "export_to_csv" /\ pc = "rename"
  /\ steps' = Append(steps, "rename")
  /\ \/ /\ fs' = [fs EXCEPT !["final"] = fs["tmp"], !["tmp"] = "absent"]
        /\ produced' = produced \cup { "final" }
        /\ ExportReturn("final")
     \/ /\ ExportThrow(TransportError(S_timeout))
        /\ UNCHANGED << fs, produced, result >>
  /\ UNCHANGED << fields, response, remaining, totalExported, exported,
                  release >>
  /\ UNCHANGED << csv, observed, others, tool, args, cluster, calls, sent >>

(***************************************************************************)
(* search_elasticsearch                                                    *)
(***************************************************************************)
\* SearchArgsSchema.parse: TRUE when the argument bag is rejected
SearchArgsRejected(a) == ~a.index

\* The catch block of SearchElasticsearchTool.execute
Search_catch(e) ==
  IF e.kind = "ZodError"
    THEN Error("ValidationError", "Invalid arguments for search_elasticsearch", << >>)
  ELSE IF e.kind \in { "ValidationError", "NotFoundError" }
    THEN e
  ELSE Error("ElasticsearchError", "Failed to execute search in Elasticsearch", e.param)

\* buildSearchRequest: the error it throws for the filter, NoError if none
buildSearchRequest(a) ==
  IF a.query = NoQuery THEN NoError
  ELSE Search_validateQuery(IF sanitizeQuery(a.query).t = "null"
                              THEN Obj(<< >>) ELSE sanitizeQuery(a.query))

ToolThrow(e) ==
  /\ pc' = "done"
  /\ outcome' = "threw"
  /\ thrown' = e

ToolReturn ==
  /\ pc' = "done"
  /\ outcome' = "returned"
  /\ UNCHANGED thrown

SearchParse ==
  /\ tool = "search_elasticsearch" /\ pc = "parse"
  /\ IF SearchArgsRejected(args)
       THEN ToolThrow(Search_catch(Error("ZodError", "", << >>)))
       ELSE pc' = "exists" /\ UNCHANGED << outcome, thrown >>
  /\ ExportVarsIdle
  /\ UNCHANGED << observed, others, tool, args, cluster, calls, sent >>

\* await client.indices.exists, then buildSearchRequest
SearchIndexExists ==
  /\ tool = "search_elasticsearch" /\ pc = "exists"
  /\ calls' = [calls EXCEPT !["indices.exists"] = @ + 1]
  /\ \/ /\ cluster.indexExists
        /\ observed' = [observed EXCEPT !.exists = "true"]
        /\ IF buildSearchRequest(args) # NoError
             THEN ToolThrow(Search_catch(buildSearchRequest(args)))
             ELSE pc' = "search" /\ UNCHANGED << outcome, thrown >>
     \/ /\ ~cluster.indexExists
        /\ observed' = [observed EXCEPT !.exists = "false"]
        /\ ToolThrow(Search_catch(
             Error("NotFoundError", "Index '%' does not exist", S_a)))
     \/ /\ observed' = [observed EXCEPT !.exists = "rejected"]
        /\ ToolThrow(Search_catch(TransportError(S_timeout)))
  /\ ExportVarsIdle
  /\ UNCHANGED << others, tool, args, cluster, sent >>

\* await client.search(searchRequest)
SearchSearch ==
  /\ tool = "search_elasticsearch" /\ pc = "search"
  /\ calls' = [calls EXCEPT !["search"] = @ + 1]
  /\ sent' = Append(sent, Request("search", args.query, 0))
  /\ \/ ToolReturn
     \/ ToolThrow(Search_catch(TransportError(S_timeout)))
  /\ ExportVarsIdle
  /\ UNCHANGED << observed, others, tool, args, cluster >>

(***************************************************************************)
(* delete_document                                                         *)
(***************************************************************************)
\* DeleteDocumentArgsSchema.parse: TRUE when the argument bag is rejected
DeleteArgsRejected(a) == ~a.index

\* The catch block of DeleteDocumentTool.execute
Delete_catch(e) ==
  IF e.kind = "ZodError"
    THEN Error("ValidationError", "Invalid arguments for delete_document", << >>)
  ELSE IF e.kind \in { "ValidationError", "NotFoundError" }
    THEN e
  ELSE Error("ElasticsearchError",
             "Failed to delete document(s) from Elasticsearch", e.param)

\* The catch block of deleteById
deleteById_catch(e) ==
  IF messageIncludes(e, S_not_found) \/ messageIncludes(e, S_document_missing)
    THEN Error("NotFoundError", "Document with ID '%' not found in index '%'", S_x)
    ELSE e

\* deleteByQuery up to its await: the error it throws, NoError if none
deleteByQuery(a) ==
  IF sanitizeQuery(a.query).t = "null"
    THEN Error("ValidationError", "Query cannot be empty", << >>)
  ELSE Delete_validateQuery(sanitizeQuery(a.query))

DeleteParse ==
  /\ tool = "delete_document" /\ pc = "parse"
  /\ IF DeleteArgsRejected(args)
       THEN ToolThrow(Delete_catch(Error("ZodError", "", << >>)))
       ELSE pc' = "exists" /\ UNCHANGED << outcome, thrown >>
  /\ ExportVarsIdle
  /\ UNCHANGED << observed, others, tool, args, cluster, calls, sent >>

\* await client.indices.exists, then the choice between deleteById and
\* deleteByQuery, each up to its await
DeleteIndexExists ==
  /\ tool = "delete_document" /\ pc = "exists"
  /\ calls' = [calls EXCEPT !["indices.exists"] = @ + 1]
  /\ \/ /\ cluster.indexExists
        /\ observed' = [observed EXCEPT !.exists = "true"]
        /\ IF args.id
             THEN pc' = "delete" /\ UNCHANGED << outcome, thrown >>
           ELSE IF args.query # NoQuery
             THEN IF deleteByQuery(args) # NoError
                    THEN ToolThrow(Delete_catch(deleteByQuery(args)))
                    ELSE pc' = "deleteByQuery" /\ UNCHANGED << outcome, thrown >>
           ELSE ToolThrow(Delete_catch(
                  Error("ValidationError", "Either id or query must be provided", << >>)))
     \/ /\ ~cluster.indexExists
        /\ observed' = [observed EXCEPT !.exists = "false"]
        /\ ToolThrow(Delete_catch(
             Error("NotFoundError", "Index '%' does not exist", S_a)))
     \/ /\ observed' = [observed EXCEPT !.exists = "rejected"]
        /\ ToolThrow(Delete_catch(TransportError(S_timeout)))
  /\ ExportVarsIdle
  /\ UNCHANGED << others, tool, args, cluster, sent >>

\* deleteById: await client.delete
DeleteById ==
  /\ tool = "delete_document" /\ pc = "delete"
  /\ calls' = [calls EXCEPT !["delete"] = @ + 1]
  /\ \/ ToolReturn
     \/ \E text \in ClientFailures :
          ToolThrow(Delete_catch(deleteById_catch(TransportError(text))))
  /\ ExportVarsIdle
  /\ UNCHANGED << observed, others, tool, args, cluster, sent >>

\* deleteByQuery: await client.deleteByQuery(deleteRequest)
DeleteByQuery ==
  /\ tool = "delete_document" /\ pc = "deleteByQuery"
  /\ calls' = [calls EXCEPT !["deleteByQuery"] = @ + 1]
  /\ sent' = Append(sent, Request("deleteByQuery", args.query, 0))
  /\ \/ ToolReturn
     \/ \E text \in ClientFailures :
          ToolThrow(Delete_catch(TransportError(text)))
  /\ ExportVarsIdle
  /\ UNCHANGED << observed, others, tool, args, cluster >>

(***************************************************************************)
(* update_document (requests that carry a document and no script)          *)
(***************************************************************************)
S_dot == << "." >>
S_a_dot_dot_x == << "a", ".", ".", "x" >>
S_a_dot_x == << "a", ".", "x" >>

MaxDocumentSize == 100 * 1024 * 1024

\* A name of n characters
LongName(n) == [i \in 1..n |-> "k"]

DocIds == 1..7

\* UpdateDocumentArgs.document is optional
NoDocument == 0

DocTree(d) ==
  CASE d = 1 -> Obj(<< >>)
    [] d = 2 -> Obj(<< << S_title, Str(S_x) >> >>)
    [] d = 3 -> Obj(<< << S_title, Str(S_x) >>, << S__id, Str(S_x) >> >>)
    [] d = 4 -> Obj(<< << S__version_conflict, Str(S_x) >> >>)
    [] d = 5 -> Obj(<< << S_a_dot_dot_x, Str(S_x) >> >>)
    [] d = 6 -> Obj(<< << S_a_dot_x, Str(S_x) >> >>)
    [] d = 7 -> Obj(<< << S_title, Obj(<< << S__id, Str(S_x) >> >>) >> >>)

\* UpdateDocumentArgsSchema.parse: TRUE when the argument bag is rejected
UpdateArgsRejected(a) == ~a.index \/ ~a.id

\* !/^\.|\.$|\.\./.test(fieldName)
isValidDottedField(fieldName) ==
  ~ \/ startsWith(fieldName, S_dot)
    \/ (Len(fieldName) > 0 /\ fieldName[Len(fieldName)] = ".")
    \/ includes(fieldName, S_dot \o S_dot)

RECURSIVE Update_checkKeys(_, _)
\* the loop over Object.keys(document), from key i on
Update_checkKeys(document, i) ==
  IF i > Len(document.v) THEN NoError
  ELSE LET key == document.v[i][1]
       IN  IF startsWith(key, << "_" >>)
             THEN Error("ValidationError",
                        "Field name '%' cannot start with underscore (reserved)", key)
           ELSE IF includes(key, S_dot) /\ ~isValidDottedField(key)
             THEN Error("ValidationError",
                        "Invalid field name '%': improper dot notation", key)
           ELSE Update_checkKeys(document, i + 1)

\* UpdateDocumentTool.validateDocument: the error it throws, NoError if none
Update_validateDocument(document) ==
  IF KeyCount(document) = 0
    THEN Error("ValidationError", "Update document cannot be empty", << >>)
  ELSE IF Update_checkKeys(document, 1) # NoError
    THEN Update_checkKeys(document, 1)
  ELSE IF Len(Stringify(document)) > MaxDocumentSize
    THEN Error("ValidationError", "Document size exceeds 100MB limit", << >>)
  ELSE NoError

S_ctx_n == << "c","t","x",".","n","+","+" >>
S_System_exit == << "S","y","s","t","e","m",".","e","x","i","t","(","0",")" >>
S_1x == << "1","x" >>

\* UpdateDocumentArgs.script and script.params are optional
NoScript == 0
NoParams == [t |-> "absent", v |-> << >>]

maxParams == 50
MaxParamNameLength == 128
MaxParamValueSize == 1024 * 1024

Script(source, params) == [source |-> source, params |-> params]

\* n parameters with distinct valid names
Params(n) == Obj([i \in 1..n |-> << LongName(i), Str(S_x) >>])

ScriptIds == 1..12

\* The scripts of the requests, by number
ScriptOf(s) ==
  CASE s = 1 -> Script(S_ctx_n, NoParams)
    [] s = 2 -> Script(<< >>, NoParams)
    [] s = 3 -> Script(<< " ", " " >>, NoParams)
    [] s = 4 -> Script(S_System_exit, NoParams)
    [] s = 5 -> Script(S_ctx_n, Params(maxParams + 1))
    [] s = 6 -> Script(S_ctx_n, Params(maxParams))
    [] s = 7 -> Script(S_ctx_n,
                       Obj(<< << LongName(MaxParamNameLength + 1), Str(S_x) >> >>))
    [] s = 8 -> Script(S_ctx_n,
                       Obj(<< << LongName(MaxParamNameLength), Str(S_x) >> >>))
    [] s = 9 -> Script(S_ctx_n, Obj(<< << S_1x, Str(S_x) >> >>))
    [] s = 10 -> Script(S_ctx_n, Obj(<< << S_x, Text(MaxParamValueSize) >> >>))
    [] s = 11 -> Script(S_ctx_n, Obj(<< << S_x, Text(MaxParamValueSize - 2) >> >>))
    [] s = 12 -> Script(S_ctx_n,
                        Obj(<< << S_not_found, Text(MaxParamValueSize) >> >>))

IdentifierStart ==
  { "a","b","c","d","e","f","g","h","i","j","k","l","m","n","o","p","q","r","s",
    "t","u","v","w","x","y","z","A","B","C","D","E","F","G","H","I","J","K","L",
    "M","N","O","P","Q","R","S","T","U","V","W","X","Y","Z","_" }

Digits == { "0","1","2","3","4","5","6","7","8","9" }

\* /^[a-zA-Z_][a-zA-Z0-9_]*$/.test(key)
isIdentifier(key) ==
  /\ Len(key) > 0
  /\ key[1] \in IdentifierStart
  /\ \A i \in 2..Len(key) : key[i] \in IdentifierStart \cup Digits

\* !script.source || script.source.trim().length === 0
isEmptySource(source) == \A i \in 1..Len(source) : source[i] = " "

\* sanitizeScriptSource: the error it throws for a dangerous source
sanitizeScriptSource(source) ==
  IF includes(source, SubSeq(S_System_exit, 1, 11))
    THEN Error("ValidationError", "Script contains potentially dangerous code", << >>)
    ELSE NoError

RECURSIVE Update_checkParams(_, _)
\* the loop over Object.entries(params), from entry i on
Update_checkParams(params, i) ==
  IF i > Len(params.v) THEN NoError
  ELSE LET key == params.v[i][1]
           value == params.v[i][2]
       IN  IF Len(key) > MaxParamNameLength
             THEN Error("ValidationError",
                        "Parameter name '%' too long (max 128 characters)", key)
           ELSE IF ~isIdentifier(key)
             THEN Error("ValidationError",
                        "Invalid parameter name '%': must be a valid identifier", key)
           ELSE IF StringifyLength(value) > MaxParamValueSize
             THEN Error("ValidationError", "Parameter '%' value exceeds 1MB limit", key)
           ELSE Update_checkParams(params, i + 1)

\* UpdateDocumentTool.validateScriptParams: the error it throws, NoError if none
Update_validateScriptParams(params) ==
  IF KeyCount(params) > maxParams
    THEN Error("ValidationError", "Too many script parameters (max 50)", << >>)
    ELSE Update_checkParams(params, 1)

\* UpdateDocumentTool.validateAndPrepareScript: the error it throws
Update_validateAndPrepareScript(script) ==
  IF isEmptySource(script.source)
    THEN Error("ValidationError", "Script source cannot be empty", << >>)
  ELSE IF sanitizeScriptSource(script.source) # NoError
    THEN sanitizeScriptSource(script.source)
  ELSE IF script.params # NoParams
    THEN Update_validateScriptParams(script.params)
  ELSE NoError

\* Preparation of the update body: the first error thrown, NoError if none
Update_prepareBody(a) ==
  LET documentError == IF a.document # NoDocument
                         THEN Update_validateDocument(DocTree(a.document))
                         ELSE NoError
  IN  IF documentError # NoError THEN documentError
      ELSE IF a.script # NoScript
        THEN Update_validateAndPrepareScript(ScriptOf(a.script))
      ELSE NoError

\* The catch block of UpdateDocumentTool.execute
Update_catch(e) ==
  IF e.kind = "ZodError"
    THEN Error("ValidationError", "Invalid arguments for update_document", << >>)
  ELSE IF \/ messageIncludes(e, S_document_missing_exception)
          \/ messageIncludes(e, S_not_found)
    THEN Error("NotFoundError", "Document with ID '%' not found in index '%'", S_x)
  ELSE IF messageIncludes(e, S_version_conflict)
    THEN Error("ValidationError",
               "Document was modified by another process, please retry", << >>)
  ELSE Error("ElasticsearchError", "Failed to update document in Elasticsearch",
             e.param)

UpdateParse ==
  /\ tool = "update_document" /\ pc = "parse"
  /\ IF UpdateArgsRejected(args)
       THEN ToolThrow(Update_catch(Error("ZodError", "", << >>)))
       ELSE pc' = "exists" /\ UNCHANGED << outcome, thrown >>
  /\ ExportVarsIdle
  /\ UNCHANGED << observed, others, tool, args, cluster, calls, sent >>

\* await client.indices.exists, then the preparation of the update body
UpdateIndexExists ==
  /\ tool = "update_document" /\ pc = "exists"
  /\ calls' = [calls EXCEPT !["indices.exists"] = @ + 1]
  /\ \/ /\ cluster.indexExists
        /\ observed' = [observed EXCEPT !.exists = "true"]
        /\ IF Update_prepareBody(args) # NoError
             THEN ToolThrow(Update_catch(Update_prepareBody(args)))
             ELSE pc' = "update" /\ UNCHANGED << outcome, thrown >>
     \/ /\ ~cluster.indexExists
        /\ observed' = [observed EXCEPT !.exists = "false"]
        /\ ToolThrow(Update_catch(
             Error("NotFoundError", "Index '%' does not exist", S_a)))
     \/ /\ observed' = [observed EXCEPT !.exists = "rejected"]
        /\ ToolThrow(Update_catch(TransportError(S_timeout)))
  /\ ExportVarsIdle
  /\ UNCHANGED << others, tool, args, cluster, sent >>

\* await client.update
UpdateUpdate ==
  /\ tool = "update_document" /\ pc = "update"
  /\ calls' = [calls EXCEPT !["update"] = @ + 1]
  /\ \/ ToolReturn
     \/ \E text \in ClientFailures : ToolThrow(Update_catch(TransportError(text)))
  /\ ExportVarsIdle
  /\ UNCHANGED << observed, others, tool, args, cluster, sent >>

(***************************************************************************)
(* insert_data                                                             *)
(***************************************************************************)
MAX_NESTING_DEPTH == 20
MaxFieldNameLength == 256
MaxArrayElements == 10000
MaxStringLength == 1024 * 1024

InsertDocIds == 1..16

\* The documents of the requests, by number
InsertDocTree(d) ==
  CASE d = 1 -> Obj(<< >>)
    [] d = 2 -> Obj(<< << S_title, Str(S_x) >> >>)
    [] d = 3 -> Obj(<< << S__id, Str(S_x) >>, << S_title, Str(S_x) >> >>)
    [] d = 4 -> Obj(<< << S_a_dot_dot_x, Str(S_x) >> >>)
    [] d = 5 -> Obj(<< << S_a_dot_x, Str(S_x) >> >>)
    [] d = 6 -> Obj(<< << S_title, Obj(<< << S__id, Str(S_x) >> >>) >> >>)
    [] d = 7 -> Obj(<< << LongName(MaxFieldNameLength + 1), Str(S_x) >> >>)
    [] d = 8 -> Obj(<< << LongName(MaxFieldNameLength), Str(S_x) >> >>)
    [] d = 9 -> Obj(<< << S_title, Many(200, Text(MaxStringLength)) >> >>)
    [] d = 10 -> Chain(MAX_NESTING_DEPTH + 1)
    [] d = 11 -> Obj(<< << S_title, Many(MaxArrayElements + 1, Str(S_x)) >> >>)
    [] d = 12 -> Obj(<< << S_title, Text(MaxStringLength + 1) >> >>)
    [] d = 13 -> Obj(<< << S_title, Arr(<< Text(MaxStringLength + 1) >>) >> >>)
    [] d = 14 -> Obj(<< << S_title,
                         Arr(<< Many(MaxArrayElements + 1, Str(S_x)) >>) >> >>)
    [] d = 15 -> Obj(<< << S_title,
                         Obj(<< << S_a, Text(MaxStringLength + 1) >> >>) >> >>)
    [] d = 16 -> Obj(<< << S_title, Many(MaxArrayElements, Text(2)) >>,
                        << S_a, Text(MaxStringLength) >> >>)

\* InsertDataArgsSchema.parse: TRUE when the argument bag is rejected
InsertArgsRejected(a) == ~a.index

\* The catch block of InsertDataTool.execute
Insert_catch(e) ==
  IF e.kind = "ZodError"
    THEN Error("ValidationError", "Invalid arguments for insert_data", << >>)
  ELSE Error("ElasticsearchError", "Failed to insert document into Elasticsearch",
             e.param)

RECURSIVE Insert_checkKeys(_, _)
\* the loop over Object.keys(document), from key i on
Insert_checkKeys(document, i) ==
  IF i > Len(document.v) THEN NoError
  ELSE LET key == document.v[i][1]
       IN  IF startsWith(key, << "_" >>)
             THEN Error("ValidationError",
                        "Field name '%' cannot start with underscore (reserved)", key)
           ELSE IF includes(key, S_dot) /\ ~isValidDottedField(key)
             THEN Error("ValidationError",
                        "Invalid field name '%': improper dot notation", key)
           ELSE IF Len(key) > MaxFieldNameLength
             THEN Error("ValidationError",
                        "Field name '%' exceeds maximum length of 256 characters", key)
           ELSE Insert_checkKeys(document, i + 1)

RECURSIVE Insert_validateNestedObject(_, _)
RECURSIVE Insert_validateEntries(_, _, _)

\* InsertDataTool.validateNestedObject: the error it throws, NoError if none
Insert_validateNestedObject(obj, depth) ==
  IF depth > MAX_NESTING_DEPTH
    THEN Error("ValidationError", "Document nesting exceeds maximum depth of 20", << >>)
    ELSE Insert_validateEntries(obj, 1, depth)

\* the loop over Object.entries(obj), from entry i on
Insert_validateEntries(obj, i, depth) ==
  IF i > Len(obj.v) THEN NoError
  ELSE LET key == obj.v[i][1]
           value == obj.v[i][2]
           nested == IF value.t = "obj"
                       THEN Insert_validateNestedObject(value, depth + 1)
                       ELSE NoError
       IN  IF nested # NoError
             THEN nested
           ELSE IF IsArray(value) /\ ArrayLength(value) > MaxArrayElements
             THEN Error("ValidationError",
                        "Array field '%' contains too many elements (max 10,000)", key)
           ELSE IF IsString(value) /\ StringLength(value) > MaxStringLength
             THEN Error("ValidationError",
                        "String field '%' exceeds maximum length of 1MB", key)
           ELSE Insert_validateEntries(obj, i + 1, depth)

\* InsertDataTool.validateDocument: the error it throws, NoError if none
Insert_validateDocument(document) ==
  IF KeyCount(document) = 0
    THEN Error("ValidationError", "Document cannot be empty", << >>)
  ELSE IF Insert_checkKeys(document, 1) # NoError
    THEN Insert_checkKeys(document, 1)
  ELSE IF StringifyLength(document) > MaxDocumentSize
    THEN Error("ValidationError", "Document size exceeds 100MB limit", << >>)
  ELSE Insert_validateNestedObject(document, 0)

\* InsertDataArgsSchema.parse, then validateDocument, up to the first await
InsertParse ==
  /\ tool = "insert_data" /\ pc = "parse"
  /\ IF InsertArgsRejected(args)
       THEN ToolThrow(Insert_catch(Error("ZodError", "", << >>)))
     ELSE IF Insert_validateDocument(InsertDocTree(args.document)) # NoError
       THEN ToolThrow(Insert_catch(
              Insert_validateDocument(InsertDocTree(args.document))))
     ELSE pc' = "exists" /\ UNCHANGED << outcome, thrown >>
  /\ ExportVarsIdle
  /\ UNCHANGED << observed, others, tool, args, cluster, calls, sent >>

\* await client.indices.exists: a missing index is only logged
InsertIndexExists ==
  /\ tool = "insert_data" /\ pc = "exists"
  /\ calls' = [calls EXCEPT !["indices.exists"] = @ + 1]
  /\ \/ /\ observed' = [observed EXCEPT !.exists =
                          IF cluster.indexExists THEN "true" ELSE "false"]
        /\ pc' = "index" /\ UNCHANGED << outcome, thrown >>
     \/ /\ observed' = [observed EXCEPT !.exists = "rejected"]
        /\ ToolThrow(Insert_catch(TransportError(S_timeout)))
  /\ ExportVarsIdle
  /\ UNCHANGED << others, tool, args, cluster, sent >>

\* await client.index(request), then the return
InsertIndex ==
  /\ tool = "insert_data" /\ pc = "index"
  /\ calls' = [calls EXCEPT !["index"] = @ + 1]
  /\ \/ ToolReturn
     \/ \E text \in ClientFailures : ToolThrow(Insert_catch(TransportError(text)))
  /\ ExportVarsIdle
  /\ UNCHANGED << observed, others, tool, args, cluster, sent >>

(***************************************************************************)
(* create_index                                                            *)
(***************************************************************************)
S_properties == << "p","r","o","p","e","r","t","i","e","s" >>
S_type == << "t","y","p","e" >>
S_text == << "t","e","x","t" >>
S_bogus == << "b","o","g","u","s" >>
S_a_x == << "a"," ","x" >>

Undefined == [t |-> "undefined", v |-> << >>]

\* obj[key]
Get(obj, key) ==
  IF obj.t = "obj" /\ \E i \in 1..Len(obj.v) : obj.v[i][1] = key
    THEN obj.v[CHOOSE i \in 1..Len(obj.v) : obj.v[i][1] = key][2]
    ELSE Undefined

\* The value converted to a boolean, as `if (value)` and `value && ...` do
Truthy(j) ==
  CASE j.t \in { "null", "undefined" } -> FALSE
    [] j.t = "str" -> Len(j.v) > 0
    [] OTHER -> TRUE

\* typeof value === 'object' for a value that is not null
IsObjectType(j) == j.t \in { "obj", "arr", "many" }

validFieldTypes ==
  {
    << "t","e","x","t" >>, << "k","e","y","w","o","r","d" >>,
    << "i","n","t","e","g","e","r" >>, << "l","o","n","g" >>,
    << "f","l","o","a","t" >>, << "d","o","u","b","l","e" >>,
    << "b","o","o","l","e","a","n" >>, << "d","a","t","e" >>,
    << "i","p" >>, << "g","e","o","_","p","o","i","n","t" >>,
    << "g","e","o","_","s","h","a","p","e" >>, << "n","e","s","t","e","d" >>,
    << "o","b","j","e","c","t" >>, << "b","i","n","a","r","y" >>,
    << "i","n","t","e","g","e","r","_","r","a","n","g","e" >>, << "f","l","o","a","t","_","r","a","n","g","e" >>,
    << "l","o","n","g","_","r","a","n","g","e" >>, << "d","o","u","b","l","e","_","r","a","n","g","e" >>,
    << "d","a","t","e","_","r","a","n","g","e" >>, << "i","p","_","r","a","n","g","e" >> }

\* A setting: absent, or a number
NoNumber == [given |-> FALSE, n |-> 0]
Number(n) == [given |-> TRUE, n |-> n]

MinShards == 1
MaxShards == 1024
MinReplicas == 0
MaxReplicas == 10

NoSettings == [kind |-> "absent", number_of_shards |-> NoNumber,
               number_of_replicas |-> NoNumber]

Settings(shards, replicas) ==
  [kind |-> "object", number_of_shards |-> shards, number_of_replicas |-> replicas]

NoMappings == 0
MappingIds == 1..5

\* The mappings of the requests, by number
MappingsOf(m) ==
  CASE m = 1 -> Obj(<< << S_properties,
                         Obj(<< << S_title, Obj(<< << S_type, Str(S_text) >> >>) >> >>)
                       >> >>)
    [] m = 2 -> Str(S_x)
    [] m = 3 -> Obj(<< << S_properties, Str(S_x) >> >>)
    [] m = 4 -> Obj(<< << S_properties,
                         Obj(<< << S_title, Obj(<< << S_type, Str(S_bogus) >> >>) >> >>)
                       >> >>)
    [] m = 5 -> Obj(<< << S_properties,
                         Obj(<< << S_a,
                                   Obj(<< << S_properties,
                                             Obj(<< << S_title,
                                                       Obj(<< << S_type, Str(S_bogus) >> >>)
                                                    >> >>) >> >>) >> >>) >> >>)

NoAliases == 0
AliasIds == 1..4

\* The alias lists of the requests, by number
AliasesOf(a) ==
  CASE a = 1 -> << S_x >>
    [] a = 2 -> << << >>, S_x >>
    [] a = 3 -> << S_a_x >>
    [] a = 4 -> << >>

\* CreateIndexArgsSchema.parse: TRUE when the argument bag is rejected
CreateArgsRejected(a) == ~a.index

\* The catch block of CreateIndexTool.execute
Create_catch(e) ==
  IF e.kind = "ZodError"
    THEN Error("ValidationError", "Invalid arguments for create_index", << >>)
  ELSE IF e.kind = "ValidationError"
    THEN e
  ELSE Error("ElasticsearchError", "Failed to create index in Elasticsearch", e.param)

RECURSIVE Create_validateMappingProperties(_)
RECURSIVE Create_validateMappingEntries(_, _)

\* CreateIndexTool.validateMappingProperties: the error it throws
Create_validateMappingProperties(properties) ==
  IF properties.t = "obj" THEN Create_validateMappingEntries(properties, 1)
  ELSE NoError

\* the loop over Object.entries(properties), from entry i on
Create_validateMappingEntries(properties, i) ==
  IF i > Len(properties.v) THEN NoError
  ELSE LET fieldName == properties.v[i][1]
           config == properties.v[i][2]
           type == Get(config, S_type)
           nested == IF IsObjectType(config) /\ Truthy(Get(config, S_properties))
                       THEN Create_validateMappingProperties(Get(config, S_properties))
                       ELSE NoError
       IN  IF /\ IsObjectType(config) /\ Truthy(type) /\ type.t = "str"
              /\ type.v \notin validFieldTypes
             THEN Error("ValidationError", "Invalid field type '%' for field '%'", type.v)
           ELSE IF nested # NoError THEN nested
           ELSE Create_validateMappingEntries(properties, i + 1)

\* CreateIndexTool.validateMappings: the error it throws, NoError if none
Create_validateMappings(mappings) ==
  IF mappings.t # "obj"
    THEN Error("ValidationError", "Mappings must be a valid object", << >>)
  ELSE IF Truthy(Get(mappings, S_properties))
          /\ ~IsObjectType(Get(mappings, S_properties))
    THEN Error("ValidationError", "Mappings properties must be an object", << >>)
  ELSE IF Truthy(Get(mappings, S_properties))
    THEN Create_validateMappingProperties(Get(mappings, S_properties))
  ELSE NoError

\* settings.number_of_shards && typeof settings.number_of_shards === 'number'
ShardsChecked(v) == v.given /\ v.n # 0

\* settings.number_of_replicas && typeof settings.number_of_replicas === 'number'
ReplicasChecked(v) == v.given /\ v.n # 0

\* CreateIndexTool.validateSettings: the error it throws, NoError if none
Create_validateSettings(settings) ==
  IF settings.kind # "object"
    THEN Error("ValidationError", "Settings must be a valid object", << >>)
  ELSE IF /\ ShardsChecked(settings.number_of_shards)
          /\ \/ settings.number_of_shards.n < MinShards
             \/ settings.number_of_shards.n > MaxShards
    THEN Error("ValidationError", "Number of shards must be between 1 and 1024", << >>)
  ELSE IF /\ ReplicasChecked(settings.number_of_replicas)
          /\ \/ settings.number_of_replicas.n < MinReplicas
             \/ settings.number_of_replicas.n > MaxReplicas
    THEN Error("ValidationError", "Number of replicas must be between 0 and 10", << >>)
  ELSE NoError

RECURSIVE Create_buildAliases(_, _)
\* CreateIndexTool.buildAliases: the error it throws, from alias i on
Create_buildAliases(aliases, i) ==
  IF i > Len(aliases) THEN NoError
  ELSE IF isEmptySource(aliases[i])
    THEN Error("ValidationError", "All aliases must be non-empty strings", << >>)
  ELSE IF includes(aliases[i], << " " >>)
    THEN Error("ValidationError", "Invalid alias name '%': cannot contain whitespace",
               aliases[i])
  ELSE Create_buildAliases(aliases, i + 1)

\* Preparation of the index body: the first error thrown, NoError if none
Create_prepareBody(a) ==
  LET mappingsError == IF a.mappings # NoMappings
                         THEN Create_validateMappings(MappingsOf(a.mappings))
                         ELSE NoError
      settingsError == IF a.settings.kind # "absent"
                         THEN Create_validateSettings(a.settings)
                         ELSE NoError
      aliasesError == IF a.aliases # NoAliases /\ Len(AliasesOf(a.aliases)) > 0
                        THEN Create_buildAliases(AliasesOf(a.aliases), 1)
                        ELSE NoError
  IN  IF mappingsError # NoError THEN mappingsError
      ELSE IF settingsError # NoError THEN settingsError
      ELSE aliasesError

\* CreateIndexArgsSchema.parse
CreateParse ==
  /\ tool = "create_index" /\ pc = "parse"
  /\ IF CreateArgsRejected(args)
       THEN ToolThrow(Create_catch(Error("ZodError", "", << >>)))
       ELSE pc' = "exists" /\ UNCHANGED << outcome, thrown >>
  /\ ExportVarsIdle
  /\ UNCHANGED << observed, others, tool, args, cluster, calls, sent >>

\* await client.indices.exists, then the preparation of the index body
CreateIndexExists ==
  /\ tool = "create_index" /\ pc = "exists"
  /\ calls' = [calls EXCEPT !["indices.exists"] = @ + 1]
  /\ \/ /\ cluster.indexExists
        /\ observed' = [observed EXCEPT !.exists = "true"]
        /\ ToolThrow(Create_catch(
             Error("ValidationError", "Index '%' already exists", S_a)))
     \/ /\ ~cluster.indexExists
        /\ observed' = [observed EXCEPT !.exists = "false"]
        /\ IF Create_prepareBody(args) # NoError
             THEN ToolThrow(Create_catch(Create_prepareBody(args)))
             ELSE pc' = "create" /\ UNCHANGED << outcome, thrown >>
     \/ /\ observed' = [observed EXCEPT !.exists = "rejected"]
        /\ ToolThrow(Create_catch(TransportError(S_timeout)))
  /\ ExportVarsIdle
  /\ UNCHANGED << others, tool, args, cluster, sent >>

\* await client.indices.create, then the return
CreateCreate ==
  /\ tool = "create_index" /\ pc = "create"
  /\ calls' = [calls EXCEPT !["indices.create"] = @ + 1]
  /\ \/ ToolReturn
     \/ \E text \in ClientFailures : ToolThrow(Create_catch(TransportError(text)))
  /\ ExportVarsIdle
  /\ UNCHANGED << observed, others, tool, args, cluster, sent >>

(***************************************************************************)
(* One request                                                             *)
(***************************************************************************)
ClientOps == { "indices.exists", "indices.getMapping", "search", "scroll",
               "clearScroll", "delete", "deleteByQuery", "update", "index",
               "indices.create" }

MaxRowsInputs ==
  { [given |-> FALSE, n |-> 0] } \cup
  { [given |-> TRUE, n |-> k] :
      k \in { MaxRowsMinimum, 3, scrollSize + 500, MaxRowsMaximum } }

\* Row caps the argument schema refuses
BadMaxRowsInputs ==
  { [given |-> TRUE, n |-> k] : k \in { MaxRowsMinimum - 1, MaxRowsMaximum + 1 } }

CollectionSizes == { 0, 3, 10, scrollSize, MaxRecords }

Arguments(index, id, query, document, nfields, maxRows, compress) ==
  [index |-> index, id |-> id, query |-> query, document |-> document,
   fields |-> nfields, maxRows |-> maxRows, compress |-> compress,
   script |-> NoScript, header |-> "absent", settings |-> NoSettings,
   mappings |-> NoMappings, aliases |-> NoAliases]

\* format.header of the request: absent, true or false
HeaderOptions == { "absent", "true", "false" }

ExportArguments ==
  { Arguments(TRUE, FALSE, q, 0, f, m, c) :
      q \in { NoQuery, 1, 3 }, f \in { 0, FieldCount }, m \in MaxRowsInputs,
      c \in BOOLEAN }
  \cup { [Arguments(TRUE, FALSE, NoQuery, 0, f, m, c) EXCEPT !.header = h] :
          f \in { 0, FieldCount }, m \in MaxRowsInputs, c \in BOOLEAN,
          h \in HeaderOptions }
  \cup { Arguments(FALSE, FALSE, NoQuery, 0, 0, [given |-> FALSE, n |-> 0], FALSE) }
  \cup { Arguments(TRUE, FALSE, NoQuery, 0, 0, m, FALSE) : m \in BadMaxRowsInputs }

SearchArguments ==
  { Arguments(i, FALSE, q, 0, 0, [given |-> FALSE, n |-> 0], FALSE) :
      i \in BOOLEAN, q \in { NoQuery } \cup QueryIds }

DeleteArguments ==
  { Arguments(i, id, q, 0, 0, [given |-> FALSE, n |-> 0], FALSE) :
      i \in BOOLEAN, id \in BOOLEAN, q \in { NoQuery } \cup QueryIds }

UpdateArguments ==
  { Arguments(i, id, NoQuery, d, 0, [given |-> FALSE, n |-> 0], FALSE) :
      i \in BOOLEAN, id \in BOOLEAN, d \in DocIds }
  \cup { [Arguments(TRUE, TRUE, NoQuery, d, 0, [given |-> FALSE, n |-> 0], FALSE)
            EXCEPT !.script = s] :
          d \in { NoDocument, 1, 2 }, s \in ScriptIds }

\* Numbers a request gives for the two settings
ShardInputs ==
  { NoNumber } \cup { Number(n) : n \in { MinShards - 2, MinShards - 1, MinShards,
                                        MaxShards, MaxShards + 1 } }

ReplicaInputs ==
  { NoNumber } \cup { Number(n) : n \in { MinReplicas - 1, MinReplicas, MaxReplicas,
                                        MaxReplicas + 1 } }

CreateBase(name) == Arguments(name, FALSE, NoQuery, 0, 0, [given |-> FALSE, n |-> 0], FALSE)

CreateArguments ==
  { CreateBase(name) : name \in BOOLEAN }
  \cup { [CreateBase(TRUE) EXCEPT !.settings = Settings(sh, re)] :
          sh \in ShardInputs, re \in ReplicaInputs }
  \cup { [CreateBase(TRUE) EXCEPT !.settings.kind = "text"] }
  \cup { [CreateBase(TRUE) EXCEPT !.mappings = m, !.aliases = al] :
          m \in { NoMappings } \cup MappingIds, al \in { NoAliases } \cup AliasIds }

InsertArguments ==
  { Arguments(i, id, NoQuery, d, 0, [given |-> FALSE, n |-> 0], FALSE) :
      i \in BOOLEAN, id \in BOOLEAN, d \in InsertDocIds }

\* The cluster an export runs against: the index with its records, the
\* records the filter matches, and the fields its mapping declares.  With
\* no filter or match_all every record matches.
ExportClusters(a) ==
  LET Existing ==
        { c \in [indexExists : { TRUE }, records : CollectionSizes,
                 matching : CollectionSizes, mappingFields : { 0, FieldCount }] :
            /\ c.matching <= c.records
            /\ a.query \in { NoQuery, 1 } => c.matching = c.records
            /\ a.query \notin { NoQuery, 1 } => c.records = MaxRecords }
  IN  { [indexExists |-> FALSE, records |-> 0, matching |-> 0,
         mappingFields |-> 0] } \cup Existing

\* Files a previous export may have left under the names of this one
StartingFiles ==
  { [f \in FileNames |-> IF f \in stale THEN "stale" ELSE "absent"] :
      stale \in { {}, { "tmp" }, { "final", "gz" }, FileNames } }

\* No tool call in progress
ToolsAtRest ==
  /\ tool = "export_to_csv"
  /\ args = Arguments(TRUE, FALSE, NoQuery, 0, 0, [given |-> FALSE, n |-> 0], FALSE)
  /\ cluster = [indexExists |-> TRUE, records |-> 0, matching |-> 0,
                mappingFields |-> 0]
  /\ pc = "idle"
  /\ calls = [op \in ClientOps |-> 0]
  /\ outcome = "running"
  /\ thrown = NoError
  /\ sent = << >>
  /\ fields = -1
  /\ response = [size |-> 0, hits |-> 0, sid |-> FALSE]
  /\ remaining = 0
  /\ totalExported = 0
  /\ exported = << >>
  /\ csv = << >>
  /\ fs = [f \in FileNames |-> "absent"]
  /\ produced = {}
  /\ steps = << >>
  /\ release = << >>
  /\ result = [filename |-> "", rowsExported |-> 0]
  /\ observed = [exists |-> "none", cursor |-> FALSE, ids |-> TRUE]

\* No concurrent exports
ConcurrentAtRest ==
  /\ runs = << >>
  /\ disk = {}
  /\ touched = {}

\* No call of extractFieldValue
ExtractionAtRest == extraction = << >>

\* No error to handle
HandlingAtRest == handling = << >>

\* No connection manager
ManagerAtRest == manager = << >>

\* The other components at rest
OthersIdle ==
  /\ ConcurrentAtRest
  /\ ExtractionAtRest
  /\ HandlingAtRest
  /\ ManagerAtRest

ToolClusters ==
  { [indexExists |-> e, records |-> 0, matching |-> 0, mappingFields |-> 0] :
      e \in BOOLEAN }

Init ==
  /\ tool \in { "export_to_csv", "search_elasticsearch", "delete_document",
                "update_document", "insert_data", "create_index" }
  /\ args \in CASE tool = "export_to_csv" -> ExportArguments
                [] tool = "search_elasticsearch" -> SearchArguments
                [] tool = "delete_document" -> DeleteArguments
                [] tool = "update_document" -> UpdateArguments
                [] tool = "insert_data" -> InsertArguments
                [] tool = "create_index" -> CreateArguments
  /\ cluster \in IF tool = "export_to_csv" THEN ExportClusters(args) ELSE ToolClusters
  /\ pc = "parse"
  /\ calls = [op \in ClientOps |-> 0]
  /\ outcome = "running"
  /\ thrown = NoError
  /\ sent = << >>
  /\ fields = -1
  /\ response = [size |-> 0, hits |-> 0, sid |-> FALSE]
  /\ remaining = 0
  /\ totalExported = 0
  /\ exported = << >>
  /\ csv = << >>
  /\ fs \in IF tool = "export_to_csv"
              THEN StartingFiles
              ELSE { [f \in FileNames |-> "absent"] }
  /\ produced = {}
  /\ steps = << >>
  /\ release = << >>
  /\ result = [filename |-> "", rowsExported |-> 0]
  /\ observed = [exists |-> "none", cursor |-> FALSE, ids |-> TRUE]
  /\ OthersIdle

Next ==
  \/ ExportParse
  \/ ExportIndexExists
  \/ ExportGetMapping
  \/ ExportSampleInTry
  \/ ExportSampleInCatch
  \/ ExportOpen
  \/ ExportWrite
  \/ ExportScroll
  \/ ExportClearScroll
  \/ ExportStat
  \/ ExportCompress
  \/ ExportUnlink
  \/ ExportStatCompressed
  \/ ExportRename
  \/ SearchParse
  \/ SearchIndexExists
  \/ SearchSearch
  \/ DeleteParse
  \/ DeleteIndexExists
  \/ DeleteById
  \/ DeleteByQuery
  \/ UpdateParse
  \/ UpdateIndexExists
  \/ UpdateUpdate
  \/ InsertParse
  \/ InsertIndexExists
  \/ InsertIndex
  \/ CreateParse
  \/ CreateIndexExists
  \/ CreateCreate

Spec == Init /\ [][Next]_vars

\* One export request, each of whose awaited operations settles
ExportInit == Init /\ tool = "export_to_csv"

ExportNext ==
  \/ ExportParse
  \/ ExportIndexExists
  \/ ExportGetMapping
  \/ ExportSampleInTry
  \/ ExportSampleInCatch
  \/ ExportOpen
  \/ ExportWrite
  \/ ExportScroll
  \/ ExportClearScroll
  \/ ExportStat
  \/ ExportCompress
  \/ ExportUnlink
  \/ ExportStatCompressed
  \/ ExportRename

ExportLiveSpec == ExportInit /\ [][ExportNext]_vars /\ WF_vars(ExportNext)

(***************************************************************************)
(* Properties                                                              *)
(***************************************************************************)
IsExport == tool = "export_to_csv"

Finished == outcome # "running"

NoClientCall == \A op \in ClientOps : calls[op] = 0

\* C1: every export that opened a scroll cursor has called clearScroll
\* exactly once when execute returns or throws, whichever way the traversal
\* ended (exhaustion, cap, or an error of scroll or writeRecords).
C1_ReleasedExactlyOnce ==
  (IsExport /\ Finished /\ observed.cursor) => calls["clearScroll"] = 1

\* C2: totalExported never decreases from one batch to the next and never
\* exceeds maxRows, in any state and in the returned rowsExported.
C2_RowCountWithinCap ==
  IsExport =>
    /\ \A i \in 1..(Len(exported) - 1) : exported[i] <= exported[i + 1]
    /\ totalExported <= maxRowsOf(args)
    /\ outcome = "returned" => result.rowsExported <= maxRowsOf(args)

\* The export of Scenario B: maxRows 3 against 10 matching records
ScenarioB ==
  /\ IsExport
  /\ args.maxRows = [given |-> TRUE, n |-> 3]
  /\ cluster.matching = 10

\* C3: once totalExported >= maxRows no scroll request is issued any more;
\* with maxRows 3 against 10 matching records the export opens with size 3,
\* writes exactly 3 rows, issues no scroll and releases its cursor once.
C3_NoAdvanceAfterCap ==
  /\ [][ (IsExport /\ totalExported >= maxRowsOf(args))
           => calls'["scroll"] = calls["scroll"] ]_vars
  /\ [](ScenarioB =>
          /\ calls["scroll"] = 0
          /\ \A i \in DOMAIN sent : sent[i].size = 3
          /\ outcome = "returned" =>
               /\ Len(sent) = 1
               /\ totalExported = 3 /\ exported = << 3 >>
               /\ result.rowsExported = 3
               /\ observed.cursor => calls["clearScroll"] = 1)

C3_Witness ==
  /\ ScenarioB /\ outcome = "returned" /\ observed.cursor
  /\ totalExported >= maxRowsOf(args)

\* C4: a failing clearScroll is only logged: the step leaves the counter,
\* the files and the handler's course as a successful release does, the
\* finalization runs, and execute returns the result of the export.
C4_ReleaseFailureSwallowed ==
  /\ [][ (IsExport /\ pc = "clear" /\ pc' # "clear"
            /\ release' = Append(release, "failed"))
           => /\ pc' = "stat" /\ outcome' = "running" /\ thrown' = NoError
              /\ totalExported' = totalExported /\ fs' = fs ]_vars
  /\ []((IsExport /\ outcome = "returned") =>
          /\ result.rowsExported = totalExported
          /\ result.filename = (IF args.compress THEN "gz" ELSE "final")
          /\ steps = (IF args.compress THEN << "compressFile", "unlink" >>
                                       ELSE << "rename" >>))

C4_Witness ==
  IsExport /\ outcome = "returned" /\ release = << "failed" >>

\* C5: when indices.exists reports that the index does not exist, the
\* export fails with a NotFoundError (code NOT_FOUND, not wrapped), having
\* made no other cluster call, opened no cursor and created no file.
C5_MissingIndexIsNotFound ==
  (IsExport /\ observed.exists = "false") =>
    /\ outcome = "threw"
    /\ thrown.kind = "NotFoundError" /\ ErrorCode(thrown.kind) = "NOT_FOUND"
    /\ \A op \in ClientOps : calls[op] = (IF op = "indices.exists" THEN 1 ELSE 0)
    /\ sent = << >> /\ ~observed.cursor
    /\ produced = {}
    /\ \A f \in FileNames : fs[f] \in { "absent", "stale" }

C5_Witness ==
  IsExport /\ observed.exists = "false" /\ Finished /\ ~cluster.indexExists

\* C6: if execute throws at any step, finalization included, no file this
\* export created exists under the final name (<filename> or <filename>.gz).
C6_NoFinalArtifactOnFailure ==
  (IsExport /\ outcome = "threw") =>
    \A f \in { "final", "gz" } : ~(f \in produced /\ fs[f] # "absent")

\* C7: after a successful export the temporary file is gone and exactly one
\* final artifact was produced, by exactly one finalization path: rename to
\* <filename> without compress, gzip to <filename>.gz then unlink with it.
C7_OneFinalArtifact ==
  (IsExport /\ outcome = "returned") =>
    /\ fs["tmp"] = "absent"
    /\ IF args.compress
         THEN /\ produced \cap { "final", "gz" } = { "gz" }
              /\ fs["gz"] # "absent" /\ result.filename = "gz"
              /\ steps = << "compressFile", "unlink" >>
         ELSE /\ produced \cap { "final", "gz" } = { "final" }
              /\ fs["final"] # "absent" /\ result.filename = "final"
              /\ steps = << "rename" >>

C7_Witness ==
  IsExport /\ outcome = "returned" /\ totalExported > 0 /\ fs["tmp"] = "absent"

\* C8: in every terminal state of an export that failed after its temporary
\* file had been created, the temporary file does not exist.
C8_NoTemporaryLeak ==
  (IsExport /\ outcome = "threw" /\ "tmp" \in produced) => fs["tmp"] = "absent"

\* C9: every request rejected with a ValidationError is rejected before any
\* call has been made on the cluster client.
C9_ValidationBeforeClusterCalls ==
  (outcome = "threw" /\ thrown.kind = "ValidationError") => NoClientCall

\* A search, or a delete by query, whose filter holds a script construct
ScriptedFilterRequest ==
  /\ \/ tool = "search_elasticsearch"
     \/ tool = "delete_document" /\ ~args.id
  /\ args.index
  /\ args.query # NoQuery
  /\ HasScriptKey(QueryTree(args.query))

\* C10: a search or delete-by-query whose filter holds a script construct
\* under any key, at any level, fails with a ValidationError, and no search
\* or deleteByQuery request sent to the cluster carries a script.
C10_NoScriptInFilters ==
  /\ (ScriptedFilterRequest /\ observed.exists = "true") =>
       (outcome = "threw" /\ thrown.kind = "ValidationError")
  /\ tool \in { "search_elasticsearch", "delete_document" } =>
       \A i \in DOMAIN sent : ~HasScriptKey(QueryTree(sent[i].query))

\* The objects held directly, as member values, by the objects of S
ObjectsBelow(S) ==
  UNION { { j.v[i][2] : i \in { k \in 1..Len(j.v) : j.v[k][2].t = "obj" } } :
            j \in S }

RECURSIVE ChainFrom(_, _)
\* n plus the number of levels of objects below the objects of S
ChainFrom(S, n) ==
  IF ObjectsBelow(S) = {} THEN n ELSE ChainFrom(ObjectsBelow(S), n + 1)

\* The longest chain of object-inside-object nesting below the object j
LongestChain(j) == ChainFrom({ j }, 0)

\* A search, or a delete by query, that carries a filter
FilterRequest ==
  /\ \/ tool = "search_elasticsearch"
     \/ tool = "delete_document" /\ ~args.id
  /\ args.index
  /\ args.query # NoQuery

\* C11: validateQueryDepth called on the root with depth 0 fails, with the
\* 'exceeds maximum depth' ValidationError, for every tree whose longest
\* chain of object-inside-object nesting below the root is longer than 20,
\* and succeeds when it is 20 or shorter.
C11_DepthBoundaryExact ==
  FilterRequest =>
    LET tree == QueryTree(args.query)
    IN  /\ Delete_validateQueryDepth(tree, 0) <=> LongestChain(tree) > 20
        /\ Search_validateQueryDepth(tree, 0) <=> LongestChain(tree) > 20
        /\ thrown = DepthExceeded => LongestChain(tree) > 20

C11_Witness ==
  /\ FilterRequest /\ outcome = "threw" /\ thrown = DepthExceeded
  /\ LongestChain(QueryTree(args.query)) = 21

\* C12: search_elasticsearch and delete_document reject, with a
\* ValidationError saying 'exceeds maximum depth', every query that wraps a
\* leaf query more than 20 times in { bool: { must: [ inner ] } }.
C12_DeepBoolMustRejected ==
  (FilterRequest /\ observed.exists = "true"
     /\ QueryTree(args.query) = BoolMust(21, TermQuery))
    => (outcome = "threw" /\ thrown = DepthExceeded)

\* Some key of the tree, at any level, begins with an underscore.
HasReservedKey(j) ==
  \E k \in 1..Len(Levels(j)) : \E n \in Levels(j)[k] :
    n.t = "obj" /\ \E i \in 1..Len(n.v) : startsWith(n.v[i][1], << "_" >>)

RECURSIVE Stripped(_)
\* The tree without its members whose key begins with an underscore
Stripped(j) ==
  IF j.t = "obj"
    THEN LET kept == SelectSeq(j.v, LAMBDA m : ~startsWith(m[1], << "_" >>))
         IN  Obj([i \in 1..Len(kept) |-> << kept[i][1], Stripped(kept[i][2]) >>])
  ELSE IF j.t = "arr"
    THEN Arr([i \in 1..Len(j.v) |-> Stripped(j.v[i])])
  ELSE j

ReservedFieldError(e) ==
  /\ e.kind = "ValidationError"
  /\ e.tpl = "Field name '%' cannot start with underscore (reserved)"

\* An insert whose document went through validateDocument
InsertValidated == tool = "insert_data" /\ args.index /\ pc # "parse"

\* An update whose document went through validateDocument
UpdateValidated ==
  /\ tool = "update_document" /\ args.index /\ args.id
  /\ args.document # NoDocument /\ observed.exists = "true"

\* C13: a write payload of insert_data or update_document that holds a key
\* beginning with an underscore, at the top level or inside a nested object,
\* fails validation with the reserved-field error and no index or update
\* request is sent; without that key the payload passes validation.
C13_ReservedKeysRejected ==
  /\ InsertValidated =>
       LET doc == InsertDocTree(args.document)
       IN  HasReservedKey(doc) =>
             /\ ReservedFieldError(Insert_validateDocument(doc))
             /\ calls["index"] = 0
             /\ KeyCount(Stripped(doc)) > 0 =>
                  Insert_validateDocument(Stripped(doc)) = NoError
  /\ UpdateValidated =>
       LET doc == DocTree(args.document)
       IN  HasReservedKey(doc) =>
             /\ ReservedFieldError(Update_validateDocument(doc))
             /\ calls["update"] = 0
             /\ KeyCount(Stripped(doc)) > 0 =>
                  Update_validateDocument(Stripped(doc)) = NoError

\* No array of the tree has more than 10,000 elements and no string of the
\* tree is longer than 1 MiB, at any position.
WithinSizeLimits(j) ==
  \A k \in 1..Len(Levels(j)) : \A n \in Levels(j)[k] :
    /\ IsArray(n) => ArrayLength(n) <= 10000
    /\ IsString(n) => StringLength(n) <= 1024 * 1024

\* C14: every document insert_data's validateDocument accepts has, at every
\* position (elements of arrays and fields of objects held in arrays
\* included), no array of more than 10,000 elements and no string longer
\* than 1 MiB.
C14_AcceptedWithinSizeLimits ==
  (InsertValidated /\ Insert_validateDocument(InsertDocTree(args.document)) = NoError)
    => WithinSizeLimits(InsertDocTree(args.document))

\* C15: when validateDocument rejects the document of an insert, execute
\* throws a ValidationError (code VALIDATION_ERROR) with the message of the
\* violation.
C15_InsertRejectionIsValidationError ==
  (tool = "insert_data" /\ args.index /\ Finished
     /\ Insert_validateDocument(InsertDocTree(args.document)) # NoError)
    => /\ outcome = "threw"
       /\ thrown.kind = "ValidationError"
       /\ ErrorCode(thrown.kind) = "VALIDATION_ERROR"
       /\ thrown.tpl = Insert_validateDocument(InsertDocTree(args.document)).tpl

\* C16: an error raised inside update_document's execute reaches the caller
\* with its kind: for a missing index the caller gets the NotFoundError
\* "Index '<name>' does not exist", for an invalid document or script the
\* ValidationError with the message of the violation.
C16_UpdateErrorsKeepKind ==
  (tool = "update_document" /\ args.index /\ args.id /\ Finished) =>
    /\ observed.exists = "false" =>
         /\ outcome = "threw"
         /\ thrown = Error("NotFoundError", "Index '%' does not exist", S_a)
    /\ (observed.exists = "true" /\ Update_prepareBody(args) # NoError) =>
         /\ outcome = "threw"
         /\ thrown = Update_prepareBody(args)

CouldNotDetermineFields ==
  Error("ValidationError",
        "Could not determine fields to export and no fields specified", << >>)

\* C17: in an export without a field list, when the mapping gives no field
\* (empty mapping or failed lookup) and the one-record sample gives no
\* document, determineFields throws the ValidationError 'Could not determine
\* fields to export'; an empty field list is never returned and no cursor is
\* opened with zero columns.
C17_EmptyDiscoveryFails ==
  IsExport =>
    /\ fields # 0
    /\ (/\ args.fields = 0 /\ cluster.mappingFields = 0 /\ cluster.records = 0
        /\ calls["search"] > 0 /\ pc # "sampleInCatch")
         => /\ outcome = "threw"
            /\ thrown = CouldNotDetermineFields \/ thrown.kind = "ElasticsearchError"
            /\ observed.cursor = FALSE

\* The header rows and the row blocks of a file
HeaderRows(file) == SelectSeq(file, LAMBDA c : c.kind = "header")
RowBlocks(file) == SelectSeq(file, LAMBDA c : c.kind = "rows")

RECURSIVE LineCountFrom(_, _)
LineCountFrom(file, i) ==
  IF i > Len(file) THEN 0
  ELSE (IF file[i].kind = "header" THEN 1 ELSE file[i].last - file[i].first + 1)
       + LineCountFrom(file, i + 1)

\* Number of lines of a file
LineCount(file) == LineCountFrom(file, 1)

\* Number of data rows of a file
RowCount(file) == LineCountFrom(RowBlocks(file), 1)

\* The data rows of the file are the records 1, 2, ... of the cursor, each
\* once and in this order
InYieldOrder(file) ==
  LET blocks == RowBlocks(file)
  IN  \A i \in 1..Len(blocks) :
        /\ blocks[i].first = (IF i = 1 THEN 1 ELSE blocks[i - 1].last + 1)
        /\ blocks[i].first <= blocks[i].last

\* The export returned a file that its own writer wrote
ExportedOwnFile ==
  IsExport /\ outcome = "returned" /\ fs[result.filename] = "own"

\* C18: the exported file starts with exactly one header row of the resolved
\* fields when format.header is absent or true, and has no header row when
\* format.header is false.
C18_HeaderRowFollowsOption ==
  ExportedOwnFile =>
    /\ args.header \in { "absent", "true" } =>
         /\ Len(csv) > 0 /\ csv[1] = HeaderRow(fields)
         /\ Len(HeaderRows(csv)) = 1
    /\ args.header = "false" => Len(HeaderRows(csv)) = 0

\* The traversal of the cursor is over and nothing failed so far
TraversalOver ==
  /\ IsExport
  /\ \/ pc \in { "stat", "compress", "unlink", "statCompressed", "rename" }
     \/ outcome = "returned"

\* C19: an export of N matching records (N at most the cap) with M resolved
\* fields and the header enabled leaves a file of N + 1 lines, the header and
\* one line per record, none repeated or dropped, every data line with M
\* fields, and returns rowsExported = N.
C19_RoundTrip ==
  (/\ TraversalOver /\ args.header \in { "absent", "true" } /\ observed.ids
   /\ cluster.matching <= maxRowsOf(args))
    => /\ LineCount(csv) = cluster.matching + 1
       /\ Len(HeaderRows(csv)) = 1
       /\ RowCount(csv) = cluster.matching /\ InYieldOrder(csv)
       /\ \A i \in 1..Len(csv) : csv[i].cols = fields
       /\ totalExported = cluster.matching
       /\ pc = "stat" => fs["tmp"] = "own"
       /\ outcome = "returned" =>
            result.rowsExported = cluster.matching /\ fs[result.filename] = "own"

\* Records the cursor has yielded so far
Yielded == cluster.matching - remaining

\* C20: within one export reading and writing alternate: a batch is requested
\* only when every record yielded so far has been written, a write puts
\* exactly the records of the current response behind those written before,
\* and the rows of the file are in the order the cursor yielded the records.
C20_SequentialInOrder ==
  /\ [](IsExport => InYieldOrder(csv) /\ RowCount(csv) <= Yielded)
  /\ [][IsExport =>
         /\ calls'["scroll"] # calls["scroll"] => RowCount(csv) = Yielded
         /\ calls'["search"] # calls["search"] => csv = << >>
         /\ csv' # csv =>
              /\ RowCount(csv) = Yielded - response.hits
              /\ RowCount(csv') = Yielded
              /\ RowBlocks(csv')[Len(RowBlocks(csv'))] =
                   Rows(Yielded - response.hits + 1, Yielded, fields)]_vars

C20_Witness ==
  /\ IsExport /\ outcome = "returned" /\ calls["scroll"] >= 2
  /\ Len(RowBlocks(csv)) = 3 /\ RowCount(csv) = MaxRecords

(***************************************************************************)
(* Two concurrent exports.  Each execution of export_to_csv runs from one  *)
(* await to the next; the file system is shared.                           *)
(***************************************************************************)
Procs == { 1, 2 }

\* Calendar days on which an export can start
Days == { 1, 2 }

NoFilename == << >>
S_r_1 == << "r"," ","1" >>
S_r__1 == << "r","_","1" >>
S_q_csv == << "q",".","c","s","v" >>
S_csv == << ".","c","s","v" >>
S_tmp == << ".","t","m","p" >>
S_gz == << ".","g","z" >>
S_export == << "_","e","x","p","o","r","t","_" >>

\* new Date().toISOString().replace(/[:.]/g, '-').split('T')[0]
DateText(day) == << "2","0","2","4","-","0","1","-","0", IF day = 1 THEN "1" ELSE "2" >>

\* [a-zA-Z0-9._-]
FilenameChars == IdentifierStart \cup Digits \cup { ".", "-" }

\* .replace(/[^a-zA-Z0-9._-]/g, '_')
ReplaceUnsafe(name) ==
  [i \in 1..Len(name) |-> IF name[i] \in FilenameChars THEN name[i] ELSE "_"]

RECURSIVE CollapseUnderscores(_)
\* .replace(/_{2,}/g, '_')
CollapseUnderscores(name) ==
  IF Len(name) < 2 THEN name
  ELSE IF name[1] = "_" /\ name[2] = "_"
    THEN CollapseUnderscores(Tail(name))
    ELSE << name[1] >> \o CollapseUnderscores(Tail(name))

\* String.prototype.endsWith
endsWith(s, suffix) ==
  Len(s) >= Len(suffix) /\ SubSeq(s, Len(s) - Len(suffix) + 1, Len(s)) = suffix

\* ExportToCSVTool.generateFilename
generateFilename(request, day, p) ==
  IF request.filename # NoFilename
    THEN LET sanitized == CollapseUnderscores(ReplaceUnsafe(request.filename))
         IN  IF endsWith(sanitized, S_csv) THEN sanitized ELSE sanitized \o S_csv
    ELSE request.index \o S_export \o DateText(day) \o S_csv

\* const tempFilename = `${filename}.tmp`
TempOf(filename) == filename \o S_tmp

\* finalFilename: `${filename}.gz` when compress is set, else filename
FinalOf(filename, compress) == IF compress THEN filename \o S_gz ELSE filename

\* Batches the cursor of one export yields
BatchCounts == { 0, 1 }

ConcurrentRequests ==
  [index : { S_a }, filename : { NoFilename, S_r_1, S_r__1, S_q_csv },
   compress : BOOLEAN]

Touch(p, op, path) == [by |-> p, op |-> op, path |-> path]

\* The execution p ends, returning or throwing
RunEnds(p, how) == runs' = [runs EXCEPT ![p].pc = "done", ![p].outcome = how]

RunGoes(p, to) == runs' = [runs EXCEPT ![p].pc = to]

ConcurrentIdle == UNCHANGED << toolVars, extraction, handling, manager >>

\* parse, await indices.exists, then generateFilename
RunStart(p) ==
  /\ runs[p].pc = "start"
  /\ \E day \in Days :
       runs' = [runs EXCEPT ![p].pc = "open", ![p].day = day,
                            ![p].filename = generateFilename(runs[p].request, day, p)]
  /\ UNCHANGED << disk, touched >>
  /\ ConcurrentIdle

\* determineFields, createCSVWriter, the opening search and the loop test
RunOpen(p) ==
  /\ runs[p].pc = "open"
  /\ \E n \in BatchCounts :
       runs' = [runs EXCEPT ![p].batches = n,
                            ![p].pc = IF n > 0 THEN "write" ELSE "stat"]
  /\ UNCHANGED << disk, touched >>
  /\ ConcurrentIdle

\* await writer.writeRecords(records): the file is opened for writing
\* (truncated by the writer's first call, appended to by the later ones)
RunWrite(p) ==
  /\ runs[p].pc = "write"
  /\ disk' = disk \cup { TempOf(runs[p].filename) }
  /\ touched' = touched \cup { Touch(p, "write", TempOf(runs[p].filename)) }
  /\ runs' = [runs EXCEPT ![p].batches = @ - 1, ![p].pc = "scroll"]
  /\ ConcurrentIdle

\* await client.scroll, the loop test and the release of the cursor
RunScroll(p) ==
  /\ runs[p].pc = "scroll"
  /\ RunGoes(p, IF runs[p].batches > 0 THEN "write" ELSE "stat")
  /\ UNCHANGED << disk, touched >>
  /\ ConcurrentIdle

\* await fs.stat(tempFilename)
RunStat(p) ==
  /\ runs[p].pc = "stat"
  /\ IF TempOf(runs[p].filename) \in disk
       THEN RunGoes(p, IF runs[p].request.compress THEN "compress" ELSE "rename")
       ELSE RunEnds(p, "threw")
  /\ UNCHANGED << disk, touched >>
  /\ ConcurrentIdle

\* await this.compressFile(tempFilename, finalFilename)
RunCompress(p) ==
  /\ runs[p].pc = "compress"
  /\ IF TempOf(runs[p].filename) \in disk
       THEN /\ disk' = disk \cup { FinalOf(runs[p].filename, TRUE) }
            /\ touched' = touched \cup
                 { Touch(p, "read", TempOf(runs[p].filename)),
                   Touch(p, "write", FinalOf(runs[p].filename, TRUE)) }
            /\ RunGoes(p, "unlink")
       ELSE /\ RunEnds(p, "threw")
            /\ UNCHANGED << disk, touched >>
  /\ ConcurrentIdle

\* await fs.unlink(tempFilename)
RunUnlink(p) ==
  /\ runs[p].pc = "unlink"
  /\ IF TempOf(runs[p].filename) \in disk
       THEN /\ disk' = disk \ { TempOf(runs[p].filename) }
            /\ touched' = touched \cup { Touch(p, "unlink", TempOf(runs[p].filename)) }
            /\ RunGoes(p, "statCompressed")
       ELSE /\ RunEnds(p, "threw")
            /\ UNCHANGED << disk, touched >>
  /\ ConcurrentIdle

\* await fs.stat(finalFilename), then the return
RunStatCompressed(p) ==
  /\ runs[p].pc = "statCompressed"
  /\ RunEnds(p, IF FinalOf(runs[p].filename, TRUE) \in disk THEN "returned" ELSE "threw")
  /\ UNCHANGED << disk, touched >>
  /\ ConcurrentIdle

\* await fs.rename(tempFilename, finalFilename), then the return
RunRename(p) ==
  /\ runs[p].pc = "rename"
  /\ IF TempOf(runs[p].filename) \in disk
       THEN /\ disk' = (disk \ { TempOf(runs[p].filename) })
                         \cup { FinalOf(runs[p].filename, FALSE) }
            /\ touched' = touched \cup
                 { Touch(p, "rename", TempOf(runs[p].filename)),
                   Touch(p, "rename", FinalOf(runs[p].filename, FALSE)) }
            /\ RunEnds(p, "returned")
       ELSE /\ RunEnds(p, "threw")
            /\ UNCHANGED << disk, touched >>
  /\ ConcurrentIdle

ConcurrentInit ==
  /\ runs \in [Procs -> { [pc |-> "start", request |-> r, day |-> 0,
                           filename |-> NoFilename, batches |-> 0,
                           outcome |-> "running"] : r \in ConcurrentRequests }]
  /\ disk = {}
  /\ touched = {}
  /\ ToolsAtRest
  /\ ExtractionAtRest
  /\ HandlingAtRest
  /\ ManagerAtRest

ConcurrentNext ==
  \/ \E p \in Procs : RunStart(p)
  \/ \E p \in Procs : RunOpen(p)
  \/ \E p \in Procs : RunWrite(p)
  \/ \E p \in Procs : RunScroll(p)
  \/ \E p \in Procs : RunStat(p)
  \/ \E p \in Procs : RunCompress(p)
  \/ \E p \in Procs : RunUnlink(p)
  \/ \E p \in Procs : RunStatCompressed(p)
  \/ \E p \in Procs : RunRename(p)

ConcurrentSpec == ConcurrentInit /\ [][ConcurrentNext]_vars

(***************************************************************************)
(* extractFieldValue: the value of a dotted field path in a record's       *)
(* source (export-to-csv.ts)                                               *)
(***************************************************************************)

S_b == << "b" >>
S_c == << "c" >>
S_a_dot_b == << "a", ".", "b" >>
S_a_dot_b_dot_x == << "a", ".", "b", ".", "x" >>
S_c_dot_x == << "c", ".", "x" >>

RECURSIVE SplitFrom(_, _, _)
\* The segments of text from position i on, part being the segment under way
SplitFrom(text, i, part) ==
  IF i > Len(text) THEN << part >>
  ELSE IF text[i] = "." THEN << part >> \o SplitFrom(text, i + 1, << >>)
  ELSE SplitFrom(text, i + 1, Append(part, text[i]))

\* fieldPath.split('.')
Split(text) == SplitFrom(text, 1, << >>)

\* A value the loop can descend into: an object that is not an array
Traversable(value) == value.t = "obj"

\* A composite final value is lost instead of being serialized
ConvertedDropped(value) ==
  IF value.t \in { "obj", "arr" } THEN Null ELSE value

\* The final value: JSON text for an object or an array, itself otherwise
Converted(value) ==
  IF value.t \in { "obj", "arr" } THEN Str(Stringify(value)) ELSE value

RECURSIVE ExtractFrom(_, _, _)
\* The loop over the segments, from segment i on
ExtractFrom(value, parts, i) ==
  IF i > Len(parts) THEN Converted(value)
  ELSE IF value.t \in { "null", "undefined" } THEN Null
  ELSE IF Traversable(value) THEN ExtractFrom(Get(value, parts[i]), parts, i + 1)
  ELSE Null

extractFieldValue(source, fieldPath) == ExtractFrom(source, Split(fieldPath), 1)

\* The sources of the records an export reads
ExtractSources ==
  { Obj(<< << S_a, Obj(<< << S_b, Num(1) >> >>) >>, << S_c, Num(2) >> >>),
    Obj(<< << S_a, Obj(<< >>) >>, << S_c, Num(3) >> >>),
    Obj(<< >>),
    Obj(<< << S_a, Num(12) >> >>),
    Obj(<< << S_a, Str(S_x) >>, << S_c, Null >> >>),
    Obj(<< << S_a, Null >> >>),
    Obj(<< << S_a, Arr(<< Obj(<< << S_b, Num(1) >> >>) >>) >> >>),
    Obj(<< << S_a, Obj(<< << S_b, Obj(<< << S_x, Num(1) >> >>) >> >>) >> >>),
    Obj(<< << S_a, Obj(<< << S_b, Arr(<< Num(1), Num(2) >>) >> >>) >> >>),
    Obj(<< << S_a, Obj(<< << S_b, Str(S_x) >> >>) >>,
           << S_c, Obj(<< << S_x, Null >> >>) >> >>),
    Obj(<< << S_a, Obj(<< << S_b, Null >> >>) >>, << S_c, Arr(<< >>) >> >>),
    Obj(<< << S_a_dot_b, Num(7) >>, << S_c, Str(S_a) >> >>) }

\* The field paths of the columns
ExtractPaths ==
  { S_a, S_c, S_a_dot_b, S_a_dot_b_dot_x, S_c_dot_x, S_a_dot_dot_x, S_b, S_x }

ExtractIdle == UNCHANGED << toolVars, runs, disk, touched, handling, manager >>

\* One call of extractFieldValue
Extract ==
  /\ extraction.pc = "call"
  /\ extraction' =
       [extraction EXCEPT !.pc = "done",
                          !.value = extractFieldValue(extraction.source,
                                                      extraction.fieldPath)]
  /\ ExtractIdle

ExtractInit ==
  /\ extraction \in [source : ExtractSources, fieldPath : ExtractPaths,
                     pc : { "call" }, value : { Undefined }]
  /\ ToolsAtRest
  /\ ConcurrentAtRest
  /\ HandlingAtRest
  /\ ManagerAtRest

ExtractNext == Extract

ExtractSpec == ExtractInit /\ [][ExtractNext]_vars

(***************************************************************************)
(* The ErrorHandler (errors/handlers.ts) and the catch of the CallTool     *)
(* handler (server.ts).  Here an error carries its class, the text of its  *)
(* message and its context.                                                *)
(***************************************************************************)

S_password == << "p","a","s","s","w","o","r","d" >>
S_apiKey == << "a","p","i","K","e","y" >>
S_token == << "t","o","k","e","n" >>
S_secret == << "s","e","c","r","e","t" >>
S_auth == << "a","u","t","h" >>
S_authorization == << "a","u","t","h","o","r","i","z","a","t","i","o","n" >>
S_credential == << "c","r","e","d","e","n","t","i","a","l" >>
S_args == << "a","r","g","s" >>
S_document == << "d","o","c","u","m","e","n","t" >>
S_index == << "i","n","d","e","x" >>
S_originalError == << "o","r","i","g","i","n","a","l","E","r","r","o","r" >>
S_name == << "n","a","m","e" >>
S_message == << "m","e","s","s","a","g","e" >>
S_Error == << "E","r","r","o","r" >>
S_masked == << "*","*","*" >>
S_hunter2 == << "h","u","n","t","e","r","2" >>
S_letmein == << "l","e","t","m","e","i","n" >>
S_connection == << "c","o","n","n","e","c","t","i","o","n" >>
S_network == << "n","e","t","w","o","r","k" >>
S_502 == << "5","0","2" >>
S_503 == << "5","0","3" >>
S_504 == << "5","0","4" >>
M_network_logs ==
  << "I","n","d","e","x"," ","'","n","e","t","w","o","r","k","-","l",
     "o","g","s","'"," ","d","o","e","s"," ","n","o","t"," ","e","x",
     "i","s","t" >>
M_missing ==
  << "I","n","d","e","x"," ","'","a","'"," ","d","o","e","s"," ","n",
     "o","t"," ","e","x","i","s","t" >>
M_invalid ==
  << "I","n","v","a","l","i","d"," ","a","r","g","u","m","e","n","t",
     "s"," ","f","o","r"," ","i","n","s","e","r","t","_","d","a","t",
     "a" >>
M_timeout ==
  << "O","p","e","r","a","t","i","o","n"," ","t","i","m","e","o","u",
     "t"," ","m","u","s","t"," ","b","e"," ","p","o","s","i","t","i",
     "v","e" >>
M_Connection ==
  << "C","o","n","n","e","c","t","i","o","n"," ","r","e","f","u","s",
     "e","d" >>
M_503 ==
  << "R","e","s","p","o","n","s","e"," ","s","t","a","t","u","s"," ",
     "5","0","3" >>
M_failed ==
  << "F","a","i","l","e","d"," ","t","o"," ","i","n","s","e","r","t",
     " ","d","o","c","u","m","e","n","t" >>

\* An error object: its class, its message, its context
Thrown(kind, message, context) ==
  [kind |-> kind, message |-> message, context |-> context]

\* The context the ElasticsearchError constructor builds
ElasticsearchErrorContext(context, originalError) ==
  Obj((IF context.t = "obj" THEN context.v ELSE << >>)
      \o << << S_originalError,
               Obj(<< << S_name, Str(originalError.name) >>,
                      << S_message, Str(originalError.message) >> >>) >> >>)

\* The subclasses of ElasticMCPError
ElasticMCPErrors ==
  { "ValidationError", "ConnectionError", "AuthenticationError",
    "NotFoundError", "RateLimitError", "ElasticsearchError" }

\* error instanceof Error
InstanceOfError(error) == error.kind \in ElasticMCPErrors \cup { "Error" }

\* The code and the status code of each class
CodeAndStatus(kind) ==
  CASE kind = "ValidationError" -> << "VALIDATION_ERROR", 400 >>
    [] kind = "ConnectionError" -> << "CONNECTION_ERROR", 503 >>
    [] kind = "AuthenticationError" -> << "AUTHENTICATION_ERROR", 401 >>
    [] kind = "NotFoundError" -> << "NOT_FOUND", 404 >>
    [] kind = "RateLimitError" -> << "RATE_LIMIT_EXCEEDED", 429 >>
    [] OTHER -> << "ELASTICSEARCH_ERROR", 500 >>

\* The markers of a retryable message
RetryMarkers == { S_timeout, S_connection, S_network, S_503, S_502, S_504 }

isRetryableError(error) ==
  IF error.kind = "ConnectionError" THEN TRUE
  ELSE IF error.kind = "ElasticsearchError" THEN TRUE
  ELSE IF InstanceOfError(error)
    THEN \E marker \in RetryMarkers :
           includes(toLowerCase(error.message), marker)
  ELSE FALSE

\* The error member of the ErrorResponse
handleError(error) ==
  IF error.kind \in ElasticMCPErrors
    THEN [code |-> CodeAndStatus(error.kind)[1], message |-> error.message,
          statusCode |-> CodeAndStatus(error.kind)[2],
          context |-> error.context]
  ELSE IF InstanceOfError(error)
    THEN [code |-> "INTERNAL_ERROR", message |-> error.message,
          statusCode |-> 500, context |-> Undefined]
  ELSE [code |-> "UNKNOWN_ERROR", message |-> error.message,
        statusCode |-> 500, context |-> Undefined]

sensitiveKeys ==
  << S_password, S_apiKey, S_token, S_secret, S_auth, S_authorization,
     S_credential >>

\* sensitiveKeys.some(sensitive => key.toLowerCase().includes(sensitive))
SomeSensitive(key) ==
  \E i \in 1..Len(sensitiveKeys) : includes(toLowerCase(key), sensitiveKeys[i])

sanitizeError(errorResponse) ==
  IF errorResponse.context.t = "obj"
    THEN [errorResponse EXCEPT !.context =
            Obj([i \in 1..Len(errorResponse.context.v) |->
                   IF SomeSensitive(errorResponse.context.v[i][1])
                     THEN << errorResponse.context.v[i][1], Str(S_masked) >>
                     ELSE errorResponse.context.v[i]])]
    ELSE errorResponse

\* The classes of the values a tool or the dispatcher throws
ThrownKinds == ElasticMCPErrors \cup { "Error", "value" }

ThrownMessages ==
  { M_network_logs, M_missing, M_invalid, M_timeout, M_Connection, M_503,
    M_failed }

\* The arguments of a request, with a document holding a text under key
RequestArgs(key, text) ==
  Obj(<< << S_index, Str(S_a) >>,
         << S_document, Obj(<< << key, Str(text) >> >>) >> >>)

\* The contexts given to the error constructors
ThrownContexts ==
  { Undefined,
    Obj(<< << S_args, RequestArgs(S_title, S_x) >> >>),
    Obj(<< << S_args, RequestArgs(S_password, S_hunter2) >> >>),
    Obj(<< << S_args, RequestArgs(S_password, S_letmein) >> >>),
    Obj(<< << S_password, Str(S_hunter2) >> >>),
    Obj(<< << S_apiKey, Str(S_hunter2) >>, << S_index, Str(S_a) >> >>),
    Obj(<< << S_token, Str(S_letmein) >> >>) }

\* The error objects: ElasticsearchError adds the original error
ThrownErrors ==
  { Thrown(kind, message,
           IF kind = "ElasticsearchError"
             THEN ElasticsearchErrorContext(
                    context, [name |-> S_Error, message |-> M_Connection])
           ELSE IF kind \in ElasticMCPErrors THEN context
           ELSE Undefined) :
      kind \in ThrownKinds, message \in ThrownMessages,
      context \in ThrownContexts }

NoResponse ==
  [code |-> "none", message |-> << >>, statusCode |-> 0, context |-> Undefined]

HandlerIdle == UNCHANGED << toolVars, runs, disk, touched, extraction, manager >>

\* isRetryableError(error), asked about the error before it is handled
Retryable ==
  /\ handling.pc = "thrown"
  /\ handling.retryable = "unknown"
  /\ handling' = [handling EXCEPT !.retryable =
                     IF isRetryableError(handling.error) THEN "yes" ELSE "no"]
  /\ HandlerIdle

\* The catch of the CallTool handler: handleError, whose result is logged
HandleError ==
  /\ handling.pc = "thrown"
  /\ handling' = [handling EXCEPT !.pc = "handled",
                                  !.response = handleError(handling.error)]
  /\ HandlerIdle

\* sanitizeError on a response
SanitizeError ==
  /\ handling.pc = "handled"
  /\ handling' = [handling EXCEPT !.pc = "sanitized",
                                  !.response = sanitizeError(handling.response)]
  /\ HandlerIdle

HandlerInit ==
  /\ handling \in [error : ThrownErrors, pc : { "thrown" },
                   retryable : { "unknown" }, response : { NoResponse }]
  /\ ToolsAtRest
  /\ ConcurrentAtRest
  /\ ExtractionAtRest
  /\ ManagerAtRest

HandlerNext ==
  \/ Retryable
  \/ HandleError
  \/ SanitizeError

HandlerSpec == HandlerInit /\ [][HandlerNext]_vars

(***************************************************************************)
(* The ElasticsearchManager (elasticsearch/client.ts): initialize, the     *)
(* health timer and its callback, reconnect and shutdown.  Every await is  *)
(* a step of its own; a callback of the timer is a task that runs          *)
(* interleaved with the others.                                            *)
(***************************************************************************)

\* Bounds of the model
MaxClients == 3
MaxTimers == 3
MaxTicks == 2

\* Task 0 is the call of initialize by the server, the others are callbacks
\* of a health timer
TickIds == 1..MaxTicks
TaskIds == 0..MaxTicks

\* The manager after its constructor; valid tells whether new Client accepts
\* the configuration
NewManager(valid) ==
  [config |-> valid,
   client |-> 0, clients |-> 0, closed |-> {},
   isConnected |-> FALSE,
   healthCheckInterval |-> 0, timers |-> {}, timersCreated |-> 0,
   tasks |-> [i \in TaskIds |-> [pc |-> IF i = 0 THEN "start" ELSE "idle",
                                 on |-> 0]],
   shutdown |-> [pc |-> "idle", on |-> 0],
   shut |-> FALSE, shutClient |-> 0, afterShutdown |-> {},
   initOutcomes |-> {}]

\* An event is remembered when it happens after shutdown has completed
Noted(m, event) ==
  [m EXCEPT !.afterShutdown = IF m.shut THEN @ \cup { event } ELSE @]

\* this.client = new Client(clientOptions)
NewClient(m) ==
  Noted([m EXCEPT !.clients = @ + 1, !.client = m.clients + 1], "newClient")

\* The results a ping and info on the client can have: a closed client fails
PingResults(m, c) == IF c \in m.closed THEN { FALSE } ELSE BOOLEAN

\* healthCheck once ping and info have settled
healthCheck(m, ok) ==
  Noted([m EXCEPT !.isConnected = ok], "healthCheck")

\* this.healthCheckInterval = setInterval(...)
startHealthMonitoring(m) ==
  Noted([m EXCEPT !.timersCreated = @ + 1,
                  !.healthCheckInterval = m.timersCreated + 1,
                  !.timers = @ \cup { m.timersCreated + 1 }], "timer")

getClient(m) ==
  IF m.client = 0 THEN "not initialized"
  ELSE IF ~m.isConnected THEN "not connected"
  ELSE "client"

\* initialize from the end of its await: the result of healthCheck is
\* dropped, the timer is started, the call returns
FinishInitialize(m, ok) ==
  LET started == startHealthMonitoring(healthCheck(m, ok))
  IN  [started EXCEPT !.initOutcomes = @ \cup { getClient(started) }]

ManagerIdle ==
  UNCHANGED << toolVars, runs, disk, touched, extraction, handling >>

\* server.start calls initialize: up to await this.healthCheck()
InitializeStart ==
  /\ manager.tasks[0].pc = "start"
  /\ manager' =
       IF manager.config
         THEN [NewClient(manager) EXCEPT
                 !.tasks[0] = [pc |-> "ping", on |-> manager.clients + 1]]
         ELSE [manager EXCEPT !.tasks[0].pc = "threw",
                              !.initOutcomes = @ \cup { "threw" }]
  /\ ManagerIdle

\* ping and info of the first initialize settle
InitializePing ==
  /\ manager.tasks[0].pc = "ping"
  /\ manager.timersCreated < MaxTimers
  /\ \E ok \in PingResults(manager, manager.tasks[0].on) :
       manager' = [FinishInitialize(manager, ok) EXCEPT !.tasks[0].pc = "done"]
  /\ ManagerIdle

\* A timer fires: its callback calls healthCheck, which starts ping and info
\* on the current client
TimerFires(i) ==
  /\ manager.tasks[i].pc = "idle"
  /\ \A j \in TickIds : j < i => manager.tasks[j].pc # "idle"
  /\ manager.timers # {}
  /\ manager' = [manager EXCEPT !.tasks[i] = [pc |-> "hc", on |-> manager.client]]
  /\ ManagerIdle

\* The health check of a callback settles; when it failed reconnect starts
\* closing the current client
TickHealthCheck(i) ==
  /\ manager.tasks[i].pc = "hc"
  /\ \E ok \in PingResults(manager, manager.tasks[i].on) :
       manager' =
         IF ok
           THEN [healthCheck(manager, ok) EXCEPT !.tasks[i].pc = "done"]
           ELSE [Noted(healthCheck(manager, ok), "reconnect") EXCEPT
                   !.tasks[i] = [pc |-> "close", on |-> manager.client]]
  /\ ManagerIdle

\* client.close() of reconnect settles: when it resolved, initialize makes a
\* new client and starts its health check; when it rejected, the callback
\* logs the error
TickClose(i) ==
  /\ manager.tasks[i].pc = "close"
  /\ \/ /\ manager.clients < MaxClients
        /\ manager' =
             [NewClient([manager EXCEPT !.closed = @ \cup { manager.tasks[i].on }])
                EXCEPT !.tasks[i] = [pc |-> "initPing", on |-> manager.clients + 1]]
     \/ manager' = [manager EXCEPT !.tasks[i].pc = "done"]
  /\ ManagerIdle

\* ping and info of the initialize of a reconnect settle
TickInitPing(i) ==
  /\ manager.tasks[i].pc = "initPing"
  /\ manager.timersCreated < MaxTimers
  /\ \E ok \in PingResults(manager, manager.tasks[i].on) :
       manager' = [FinishInitialize(manager, ok) EXCEPT !.tasks[i].pc = "done"]
  /\ ManagerIdle

\* shutdown of an initialized manager, up to await this.client.close(): the
\* recorded timer is cleared
ShutdownStart ==
  /\ manager.shutdown.pc = "idle"
  /\ manager.tasks[0].pc = "done"
  /\ manager' =
       [manager EXCEPT
          !.timers = @ \ { manager.healthCheckInterval },
          !.healthCheckInterval = 0,
          !.shutdown = [pc |-> "close", on |-> manager.client]]
  /\ ManagerIdle

\* client.close() of shutdown settles, resolved or rejected; isConnected is
\* set to false and shutdown returns
ShutdownClose ==
  /\ manager.shutdown.pc = "close"
  /\ \E resolved \in BOOLEAN :
       manager' =
         [manager EXCEPT
            !.closed = IF resolved THEN @ \cup { manager.shutdown.on } ELSE @,
            !.isConnected = FALSE,
            !.shutdown.pc = "done",
            !.shut = TRUE,
            !.shutClient = manager.client]
  /\ ManagerIdle

ManagerInit ==
  /\ manager \in { NewManager(valid) : valid \in BOOLEAN }
  /\ ToolsAtRest
  /\ ConcurrentAtRest
  /\ ExtractionAtRest
  /\ HandlingAtRest

ManagerNext ==
  \/ InitializeStart
  \/ InitializePing
  \/ \E i \in TickIds : TimerFires(i)
  \/ \E i \in TickIds : TickHealthCheck(i)
  \/ \E i \in TickIds : TickClose(i)
  \/ \E i \in TickIds : TickInitPing(i)
  \/ ShutdownStart
  \/ ShutdownClose

ManagerSpec == ManagerInit /\ [][ManagerNext]_vars

\* The paths that belong to the execution q once its file name is generated
PathsOf(q) ==
  IF runs[q].pc = "start" THEN {}
  ELSE { TempOf(runs[q].filename),
         FinalOf(runs[q].filename, runs[q].request.compress) }

\* C21: two interleaved exports are independent: the temporary file and the
\* final file of one execution are never written, renamed, read for
\* compression or unlinked by the other execution, also for two exports of
\* the same index on the same day without a filename, and for two filenames
\* that differ only in characters the sanitization replaces.
C21_ExportsIndependent ==
  \A t \in touched : \A q \in Procs \ { t.by } : t.path \notin PathsOf(q)

\* A number given for a setting lies outside lo..hi
OutOfRange(v, lo, hi) == v.given /\ (v.n < lo \/ v.n > hi)

\* C24: create_index rejects with a ValidationError, without calling
\* indices.create, every request whose numeric number_of_shards is outside
\* 1..1024 (0 included) or whose numeric number_of_replicas is outside 0..10
\* (-1 included); requests with both values inside the ranges are accepted.
C24_SettingsRangesEnforced ==
  (/\ tool = "create_index" /\ args.index /\ args.settings.kind = "object"
   /\ observed.exists = "false")
    => IF \/ OutOfRange(args.settings.number_of_shards, 1, 1024)
          \/ OutOfRange(args.settings.number_of_replicas, 0, 10)
         THEN /\ outcome = "threw" /\ thrown.kind = "ValidationError"
              /\ calls["indices.create"] = 0
         ELSE pc = "create" \/ calls["indices.create"] = 1

\* The own property named key exists on the object
HasKey(obj, key) == \E i \in 1..Len(obj.v) : obj.v[i][1] = key

RECURSIVE At(_, _, _)
\* The member reached from source by the first k segments
At(source, parts, k) ==
  IF k = 0 THEN source ELSE Get(At(source, parts, k - 1), parts[k])

\* Every one of the first k segments names a member of an object
Resolves(source, parts, k) ==
  \A i \in 1..k : /\ At(source, parts, i - 1).t = "obj"
                  /\ HasKey(At(source, parts, i - 1), parts[i])

\* A value is empty
IsEmpty(value) == value.t \in { "null", "undefined" }

\* The row of a record for the columns a.b and c
ExampleRow(source) ==
  << extractFieldValue(source, S_a_dot_b), extractFieldValue(source, S_c) >>

C22_NeverRetried ==
  (/\ handling # << >> /\ handling.retryable # "unknown"
   /\ handling.error.kind \in { "ValidationError", "NotFoundError" })
    => handling.retryable = "no"

\* The words that make a key sensitive
SensitiveWords ==
  { S_password, S_apiKey, S_token, S_secret, S_auth, S_authorization,
    S_credential }

\* The key contains one of the words, whatever the case of its letters
IsSensitiveKey(key) ==
  \E word \in SensitiveWords : includes(toLowerCase(key), toLowerCase(word))

RECURSIVE Exposes(_)
\* At some nesting level a sensitive key holds a value that is not masked
Exposes(j) ==
  /\ j.t \in { "obj", "arr" }
  /\ \E i \in 1..Len(j.v) :
       LET member == IF j.t = "obj" THEN j.v[i][2] ELSE j.v[i]
       IN  \/ j.t = "obj" /\ IsSensitiveKey(j.v[i][1]) /\ member # Str(S_masked)
           \/ Exposes(member)

\* C23: no value stored under a key containing password, apiKey, token,
\* secret, auth, authorization or credential appears, at any nesting level
\* (the args attached to an ElasticsearchError included), in the context of
\* the response of handleError that the server logs, nor after
\* sanitizeError.
C23_NoSensitiveContext ==
  (handling # << >> /\ handling.pc \in { "handled", "sanitized" })
    => ~Exposes(handling.response.context)

\* Every write adds at least one row: the totals grow strictly
StrictlyGrowing ==
  \A i \in 1..Len(exported) :
    exported[i] > (IF i = 1 THEN 0 ELSE exported[i - 1])

\* C26: every export terminates: the scroll loop runs at most maxRows times,
\* each iteration writes at least one row so that totalExported grows
\* strictly, and the request then reaches a terminal state (the cursor is
\* exhausted, the cap is reached, or the first error is thrown).
C26_ExportTerminates ==
  /\ [](IsExport => /\ Len(exported) <= maxRowsOf(args)
                    /\ StrictlyGrowing
                    /\ Len(exported) > 0
                         => totalExported = exported[Len(exported)])
  /\ <>(Finished /\ pc = "done")

\* An export has returned after three iterations of the scroll loop
C26_Witness ==
  /\ IsExport /\ pc = "done" /\ outcome = "returned"
  /\ Len(exported) = 3
  /\ calls["scroll"] = 3

\* C27: an export whose filter matches no record completes with
\* rowsExported = 0 and a finalized artifact of its own: when the scroll loop
\* is left the temporary file exists, so that the size lookup and the
\* finalization do not fail for a missing file, and the file returned is the
\* one this export wrote.
C27_EmptyExportSucceeds ==
  (IsExport /\ cluster.matching = 0)
    => /\ pc = "stat" => fs["tmp"] = "own"
       /\ outcome = "returned"
            => result.rowsExported = 0 /\ fs[result.filename] = "own"

\* C28: after any sequence of initialize, failed health checks and
\* reconnects at most one health timer is active, and healthCheckInterval
\* records it.
C28_SingleHealthTimer ==
  manager # << >>
    => /\ Cardinality(manager.timers) <= 1
       /\ manager.timers \subseteq { manager.healthCheckInterval }

\* C29: once shutdown has completed the manager stays shut down, whatever
\* callback or reconnect was in flight: isConnected stays false, the client
\* is not replaced, no health check, reconnect or timer start happens any
\* more, and getClient throws.
C29_ShutdownIsFinal ==
  (manager # << >> /\ manager.shut)
    => /\ ~manager.isConnected
       /\ manager.client = manager.shutClient
       /\ manager.afterShutdown = {}
       /\ getClient(manager) # "client"

\* C30: whenever initialize completes without throwing, isConnected is true
\* and getClient returns a client; an initialize whose first ping or info
\* fails does not complete.
C30_InitializedMeansConnected ==
  manager # << >> => manager.initOutcomes \subseteq { "client", "threw" }

====
